---- MODULE Spec2Model ----
(***************************************************************************)
(* Session identity reconciliation of claudecodeui.                        *)
(*                                                                         *)
(* The client (src/src/App.jsx: AppContent, and ChatInterface in           *)
(* src/src/components/DirectoryBrowser.jsx) is modelled as a state machine *)
(* over its React state and its localStorage; every event handler is one   *)
(* action, and the effects React runs after the handler's state updates    *)
(* (URL-based session loading, currentSessionId sync, message loading and  *)
(* conversion) are part of that action.  handleSubmit awaits a fetch in    *)
(* the middle, so it is two actions.  The server side (spawnClaude) is the *)
(* environment of the client: it delivers 'session-created', responses,    *)
(* terminal events and 'projects_updated' snapshots.                       *)
(*                                                                         *)
(* Abstractions: an absent object is the empty sequence and a present one  *)
(* a one-element sequence; an identity is a triple whose first two         *)
(* components are its prefixes, so that startsWith is a comparison;        *)
(* JSON.stringify equality is structural equality; the fields messageCount,*)
(* cwd, displayName and fullPath, which no decision reads, are left out.   *)
(***************************************************************************)
EXTENDS Integers, Sequences, FiniteSets, Bags, TLC

(***************************************************************************)
(* Bounds of the model.                                                    *)
(***************************************************************************)
MaxPlaceholders == 1
MaxSubmits == 1
MaxResubmits == 2
MaxResubmitClicks == 3
MaxResubmitPlaceholders == 2
MaxClicks == 2
MaxOutsideChanges == 1
MaxResponses == 1
MaxTitleClicks == 4
MaxInvocations == 2
MaxLines == 1
MaxAborts == 2
MaxOutput == 4
MaxFiles == 2
MaxEntries == 2
MaxPagedFiles == 4

(***************************************************************************)
(* Program constants.                                                      *)
(***************************************************************************)
maxAge == 86400000
pendingConversionTimeout == 300000

(***************************************************************************)
(* Identities.                                                             *)
(***************************************************************************)
NoId == <<"", "", 0>>
Temp(n) == <<"session", "temp-", n>>
Real(n) == <<"session", "uuid", n>>
NewSessionMarker(n) == <<"new-session-", "", n>>
ConversationId(sid) == <<"conversation_", sid[2], sid[3]>>
ConversationMarker(cid) == <<"conversation-", cid[2], cid[3]>>

StartsWithTemp(id) == id[1] = "session" /\ id[2] = "temp-"
StartsWithNewSession(id) == id[1] = "new-session-"

Undefined == "undefined"
NoTime == -1

(***************************************************************************)
(* Sequence helpers.                                                       *)
(***************************************************************************)
Range(s) == {s[i] : i \in DOMAIN s}
MapSeq(s, F(_)) == [i \in DOMAIN s |-> F(s[i])]
Indices(s, T(_)) == {i \in DOMAIN s : T(s[i])}
Some(s, T(_)) == Indices(s, T) # {}

\* Array.prototype.filter: the passing elements, in order
Filter(s, T(_)) ==
  LET idx == Indices(s, T)
      nth(k) == CHOOSE i \in idx : Cardinality({j \in idx : j < i}) = k - 1
  IN  [k \in 1..Cardinality(idx) |-> s[nth(k)]]

\* Array.prototype.find: the first element that passes, as an optional value
Find(s, T(_)) ==
  IF Some(s, T)
  THEN <<s[CHOOSE i \in Indices(s, T) : \A j \in Indices(s, T) : i <= j]>>
  ELSE <<>>

IdOf(opt) == IF opt = <<>> THEN NoId ELSE opt[1].id
NameOf(opt) == IF opt = <<>> THEN Undefined ELSE opt[1].name
HasId(id) == id # NoId

(***************************************************************************)
(* Sessions and projects.                                                  *)
(***************************************************************************)
\* a session record as getProjects returns it: no title, created_at or
\* updated_at field
ServerSession(id, summary, lastActivity) ==
  [id |-> id, title |-> Undefined, summary |-> summary, created_at |-> NoTime,
   updated_at |-> NoTime, lastActivity |-> lastActivity, isPlaceholder |-> FALSE]

ServerProject(name, sessions) ==
  [name |-> name, sessions |-> sessions, total |-> Len(sessions)]

\* the project directory at the start
InitialDirectory ==
  <<ServerProject("demo", <<ServerSession(Real(1), "sA", 0)>>),
    ServerProject("other", <<>>)>>

\* the placeholder session handleNewSession creates at time t
PlaceholderSession(id, t) ==
  [id |-> id, title |-> "New Conversation", summary |-> "New Conversation",
   created_at |-> t, updated_at |-> t, lastActivity |-> t, isPlaceholder |-> TRUE]

\* the record handleNewSession persists under 'placeholderSessions'
PlaceholderRecord(id, t, projectName) ==
  [id |-> id, title |-> "New Conversation", summary |-> "New Conversation",
   created_at |-> t, updated_at |-> t, lastActivity |-> t,
   projectName |-> projectName, createdAt |-> t,
   pendingConversion |-> FALSE, pendingConversionTime |-> 0]

(***************************************************************************)
(* addPlaceholderSessions (App.jsx): the stored placeholder records that   *)
(* stay valid at time t for the given project list, the storage it leaves  *)
(* behind, and the project list with the valid placeholders put first.     *)
(***************************************************************************)
IsValidPlaceholder(r, projs, t) ==
  LET isRecent == t - r.createdAt < maxAge
      projectExists == \E i \in DOMAIN projs : projs[i].name = r.projectName
      isPendingConversion == r.pendingConversion
      pendingConversionExpired ==
        isPendingConversion /\ (t - r.pendingConversionTime) > pendingConversionTimeout
  IN  isRecent /\ projectExists /\ ~isPendingConversion /\ ~pendingConversionExpired

ValidPlaceholders(stored, projs, t) ==
  LET Valid(r) == IsValidPlaceholder(r, projs, t) IN Filter(stored, Valid)

PlaceholderAsSession(r) ==
  [id |-> r.id, title |-> r.title, summary |-> r.summary, created_at |-> r.created_at,
   updated_at |-> r.updated_at, lastActivity |-> r.lastActivity, isPlaceholder |-> TRUE]

addPlaceholderSessions(projs, stored, t) ==
  LET valid == ValidPlaceholders(stored, projs, t)
      WithPlaceholders(project) ==
        LET Mine(r) == r.projectName = project.name
            projectPlaceholders == MapSeq(Filter(valid, Mine), PlaceholderAsSession)
        IN  IF Len(projectPlaceholders) > 0
            THEN [project EXCEPT !.sessions = projectPlaceholders \o project.sessions,
                                 !.total = project.total + Len(projectPlaceholders)]
            ELSE project
  IN  MapSeq(projs, WithPlaceholders)

(***************************************************************************)
(* isUpdateAdditive (App.jsx).  The selections are optional values.        *)
(***************************************************************************)
isUpdateAdditive(currentProjects, updatedProjects, selProject, selSession) ==
  IF selProject = <<>> \/ selSession = <<>> THEN TRUE
  ELSE
    LET SameName(p) == p.name = selProject[1].name
        SameId(x) == x.id = selSession[1].id
        currentSelectedProject == Find(currentProjects, SameName)
        updatedSelectedProject == Find(updatedProjects, SameName)
    IN  IF currentSelectedProject = <<>> \/ updatedSelectedProject = <<>> THEN FALSE
        ELSE
          LET currentSelectedSession == Find(currentSelectedProject[1].sessions, SameId)
              updatedSelectedSession == Find(updatedSelectedProject[1].sessions, SameId)
          IN  IF selSession[1].isPlaceholder \/ StartsWithTemp(selSession[1].id) THEN TRUE
              ELSE IF currentSelectedSession = <<>> \/ updatedSelectedSession = <<>> THEN FALSE
              ELSE /\ currentSelectedSession[1].id = updatedSelectedSession[1].id
                   /\ currentSelectedSession[1].title = updatedSelectedSession[1].title
                   /\ currentSelectedSession[1].created_at = updatedSelectedSession[1].created_at
                   /\ currentSelectedSession[1].updated_at = updatedSelectedSession[1].updated_at

(***************************************************************************)
(* State.                                                                  *)
(***************************************************************************)
VARIABLES
  projects,             \* App: projects
  selectedProject,      \* App: selectedProject (optional)
  selectedSession,      \* App: selectedSession (optional)
  selectedConversation, \* App: selectedConversation (optional)
  targetSessionId,      \* App: targetSessionId
  urlSessionId,         \* the :sessionId route parameter (useParams)
  activeSessions,       \* App: activeSessions, the Protection Set
  placeholderSessions,  \* localStorage 'placeholderSessions', in insertion order
  currentSessionId,     \* ChatInterface: currentSessionId
  lastSentSessionId,    \* ChatInterface: lastSentSessionId
  isLoading,            \* ChatInterface: isLoading
  claudeStatus,         \* ChatInterface: claudeStatus is set
  chatMessages,         \* ChatInterface: chatMessages, the in-view transcript
  sessionMessages,      \* ChatInterface: sessionMessages
  submitting,           \* a handleSubmit suspended at its await (optional)
  invocations,          \* server: one record per 'claude-command' received
  now,                  \* Date.now()
  nClicks,              \* sidebar clicks made
  nOutside,             \* outside changes of the project directory
  serverProjects,       \* server: the project directory as getProjects reads it
  nTemp,                \* placeholder identities minted
  fetchPending,         \* a fetchProjects call is under way
  claudeCommand,        \* server: what getClaudeCommand has cached
  activeClaudeProcesses, \* server: the process table, key -> subprocess
  claudeProcesses,      \* server: one record per spawnClaude call
  wsSent,               \* server: the messages sent on the WebSocket, a bag
  stdoutText,           \* everything a subprocess writes to its stdout
  stdoutRead,           \* how much of it the 'data' events have delivered
  forwarded,            \* the events the stdout handler has sent, in order
  logFiles,             \* the .jsonl files of one project directory, in readdir order
  sessionsResult,       \* what getSessions has returned for it (optional)
  projectDirExists,     \* whether the project directory exists (readdir: ENOENT if not)
  messagesResult,       \* what getSessionMessages has returned (optional)
  pathProject,          \* the project whose path is asked for
  projectConfig,        \* project-config.json: project name -> its entry
  cwdFiles,             \* the .jsonl files of its directory: their entries' cwd, timestamp
  projectDirectoryCache,\* server/projects.js projectDirectoryCache: name -> path
  extractedPath,        \* what extractProjectDirectory has returned (optional)
  debounceTimers,       \* the scheduled timeouts of the projects watcher
  sinceEvent,           \* ms since the last filesystem event (capped)
  pendingUpdates,       \* timer callbacks waiting for their getProjects
  watcherLog,           \* the filesystem events and snapshot pushes, in order
  claudeProjectDirs,    \* the directories of ~/.claude/projects, in readdir order
  configOrder,          \* the keys of project-config.json, in insertion order
  projectsResult,       \* what getProjects has returned (optional)
  deleteResult,         \* how the last deleteProject call ended (optional)
  apiMessages,          \* the log entries loaded for the session (sessionMessages)
  checkpointStore,      \* localStorage checkpoints of the project, in key order
  converted,            \* what convertFromAPI has returned (optional)
  restoredMessages,     \* what the effect passes to setChatMessages (optional)
  truncation,           \* truncateSessionMessages: where the call stands, its locals
  tempFile,             \* the .tmp file next to a log file (optional)
  truncateResult,       \* the messages-truncated reply (optional)
  nAppends,             \* entries the subprocess has appended
  snapshotRuns,         \* the getProjects calls under way for a snapshot push
  snapshotsSent,        \* the snapshots pushed to the client, in order
  processedMessageIds,  \* App: processedMessageIds, in insertion order
  appliedMessages,      \* the messages the App handler has gone on to apply, a bag
  nFresh,               \* messages the WebSocket has delivered for the first time
  nAgain,               \* messages it has delivered once more
  deleteSessionResult,  \* what the last deleteSession call returned or threw (<<>>: no call yet)
  nDeleted,             \* deleteSession calls so far
  latestMessage         \* the last WebSocket message (messages[messages.length - 1])

vars == <<projects, selectedProject, selectedSession, selectedConversation,
          targetSessionId, urlSessionId, activeSessions, placeholderSessions,
          currentSessionId, lastSentSessionId, isLoading, claudeStatus,
          chatMessages, sessionMessages, submitting, invocations, now, nClicks,
          nOutside, serverProjects, nTemp, fetchPending, latestMessage,
          claudeCommand, activeClaudeProcesses, claudeProcesses, wsSent,
          stdoutText, stdoutRead, forwarded, logFiles, sessionsResult,
          projectDirExists, messagesResult, pathProject, projectConfig,
          cwdFiles, projectDirectoryCache, extractedPath, debounceTimers,
          sinceEvent, pendingUpdates, watcherLog, claudeProjectDirs,
          configOrder, projectsResult, deleteResult, apiMessages,
          checkpointStore, converted, restoredMessages, truncation, tempFile,
          truncateResult, nAppends, snapshotRuns, snapshotsSent,
          processedMessageIds, appliedMessages, nFresh, nAgain,
          deleteSessionResult, nDeleted>>

stdoutVars == <<stdoutText, stdoutRead, forwarded>>

readerVars == <<logFiles, sessionsResult, projectDirExists, messagesResult>>

pathVars == <<pathProject, projectConfig, cwdFiles, projectDirectoryCache,
              extractedPath>>

watcherVars == <<debounceTimers, sinceEvent, pendingUpdates, watcherLog>>

projectsVars == <<claudeProjectDirs, configOrder, projectsResult, deleteResult>>

transcriptVars == <<apiMessages, checkpointStore, converted, restoredMessages>>

truncateVars == <<truncation, tempFile, truncateResult, nAppends>>

snapshotVars == <<snapshotRuns, snapshotsSent>>

dedupVars == <<processedMessageIds, appliedMessages, nFresh, nAgain>>

deleteVars == <<deleteSessionResult, nDeleted>>

serverVars == <<claudeCommand, activeClaudeProcesses, claudeProcesses, wsSent,
                stdoutVars, readerVars, pathVars, watcherVars, projectsVars, transcriptVars, truncateVars, snapshotVars, dedupVars, deleteVars>>

appVars == <<projects, selectedProject, selectedSession, selectedConversation,
             targetSessionId, urlSessionId, activeSessions, placeholderSessions>>

chatVars == <<currentSessionId, lastSentSessionId, isLoading, claudeStatus,
              chatMessages, sessionMessages, submitting>>

Message(type, sessionId) == [type |-> type, sessionId |-> sessionId]
NoMessage == Message("none", NoId)

InitProgram ==
  /\ projects = <<>>
  /\ selectedProject = <<>>
  /\ selectedSession = <<>>
  /\ selectedConversation = <<>>
  /\ targetSessionId = NoId
  /\ urlSessionId = NoId
  /\ activeSessions = {}
  /\ placeholderSessions = <<>>
  /\ currentSessionId = NoId
  /\ lastSentSessionId = NoId
  /\ isLoading = FALSE
  /\ claudeStatus = FALSE
  /\ chatMessages = <<>>
  /\ sessionMessages = <<>>
  /\ submitting = <<>>
  /\ invocations = <<>>
  /\ now = 1
  /\ nClicks = 0
  /\ nOutside = 0
  /\ serverProjects = InitialDirectory
  /\ nTemp = 0
  /\ fetchPending = TRUE
  /\ latestMessage = NoMessage
  /\ claudeCommand = "null"
  /\ activeClaudeProcesses = <<>>
  /\ claudeProcesses = <<>>
  /\ wsSent = EmptyBag

NoOutput ==
  /\ stdoutText = <<>>
  /\ stdoutRead = 0
  /\ forwarded = <<>>

NoLogs ==
  /\ logFiles = <<>>
  /\ sessionsResult = <<>>
  /\ projectDirExists = TRUE
  /\ messagesResult = <<>>

\* a project name: the encoded path, split at its hyphens
ProjectName(leadingHyphen, segments) ==
  [leadingHyphen |-> leadingHyphen, segments |-> segments]

NoPaths ==
  /\ pathProject = ProjectName(TRUE, <<"home", "my", "app">>)
  /\ projectConfig = <<>>
  /\ cwdFiles = <<>>
  /\ projectDirectoryCache = <<>>
  /\ extractedPath = <<>>

\* the debounce delay of the projects watcher, and the longest time kept
debounceDelay == 150
ClockStep == 50
Idle == debounceDelay + ClockStep

NoWatcher ==
  /\ debounceTimers = <<>>
  /\ sinceEvent = Idle
  /\ pendingUpdates = <<>>
  /\ watcherLog = <<>>

NoProjects ==
  /\ claudeProjectDirs = <<>>
  /\ configOrder = <<>>
  /\ projectsResult = <<>>
  /\ deleteResult = <<>>

\* no truncation is running
NotTruncating ==
  [pc |-> "idle", sessionId |-> NoId, targetMessageCount |-> 0, file |-> 0,
   allLines |-> <<>>, newLines |-> <<>>, totalTruncated |-> 0, filesModified |-> 0]

NoTruncation ==
  /\ truncation = NotTruncating
  /\ tempFile = <<>>
  /\ truncateResult = <<>>
  /\ nAppends = 0

NoSnapshots ==
  /\ snapshotRuns = <<>>
  /\ snapshotsSent = <<>>

NoInbound ==
  /\ processedMessageIds = <<>>
  /\ appliedMessages = EmptyBag
  /\ nFresh = 0
  /\ nAgain = 0

NoDeletion ==
  /\ deleteSessionResult = <<>>
  /\ nDeleted = 0

NoTranscript ==
  /\ apiMessages = <<>>
  /\ checkpointStore = <<>>
  /\ converted = <<>>
  /\ restoredMessages = <<>>

Init ==
  /\ InitProgram /\ NoOutput /\ NoLogs /\ NoPaths /\ NoWatcher
  /\ NoProjects /\ NoTranscript /\ NoTruncation /\ NoSnapshots /\ NoInbound /\ NoDeletion

(***************************************************************************)
(* The effects React runs after a handler has updated the state.           *)
(* A "view" is the part of the state the effects read and write.           *)
(***************************************************************************)
View ==
  [projects |-> projects, selectedProject |-> selectedProject,
   selectedSession |-> selectedSession, selectedConversation |-> selectedConversation,
   targetSessionId |-> targetSessionId, urlSessionId |-> urlSessionId,
   currentSessionId |-> currentSessionId, lastSentSessionId |-> lastSentSessionId,
   chatMessages |-> chatMessages, sessionMessages |-> sessionMessages,
   projectsSet |-> FALSE]

IsPlaceholderSelected(v) ==
  v.selectedSession # <<>> /\ v.selectedSession[1].isPlaceholder

\* what the Session Log Reader returns for the selection of view v
\* (loadConversationMessages / loadSessionMessages; the log of a real session
\* is one entry of history)
LoadedMessages(v) ==
  IF v.selectedConversation # <<>> /\ v.selectedProject # <<>> THEN <<"history">>
  ELSE IF v.selectedSession # <<>> /\ v.selectedProject # <<>>
          /\ ~v.selectedSession[1].isPlaceholder THEN <<"history">>
  ELSE <<>>

\* ChatInterface effects, from the view of the previous render to the view
\* after the state update: load messages, sync currentSessionId (for the
\* selected session and for the selected conversation), convert messages
ChatEffects(prev, cur) ==
  LET selId == IdOf(cur.selectedSession)
      loadDeps == \/ selId # IdOf(prev.selectedSession)
                  \/ IdOf(cur.selectedConversation) # IdOf(prev.selectedConversation)
                  \/ NameOf(cur.selectedProject) # NameOf(prev.selectedProject)
      conversationDeps ==
        \/ IdOf(cur.selectedConversation) # IdOf(prev.selectedConversation)
        \/ cur.targetSessionId # prev.targetSessionId
      sessionIdToUse ==
        IF HasId(cur.targetSessionId) THEN cur.targetSessionId
        ELSE IF cur.selectedConversation # <<>> THEN cur.selectedConversation[1].mostRecent
        ELSE NoId
      syncSession == selId # cur.currentSessionId
      syncConversation == /\ conversationDeps
                          /\ cur.selectedConversation # <<>>
                          /\ HasId(sessionIdToUse)
                          /\ sessionIdToUse # cur.currentSessionId
      loaded == LoadedMessages(cur)
      beforeLoad ==
        IF cur.sessionMessages # <<>> THEN cur.sessionMessages
        ELSE IF ~IsPlaceholderSelected(cur) THEN <<>>
        ELSE cur.chatMessages
      afterLoad ==
        IF loaded # <<>> THEN loaded
        ELSE IF ~IsPlaceholderSelected(cur) THEN <<>>
        ELSE beforeLoad
  IN  [cur EXCEPT
        !.currentSessionId = selId,
        !.lastSentSessionId =
           IF syncSession \/ syncConversation THEN NoId ELSE cur.lastSentSessionId,
        !.sessionMessages = IF loadDeps THEN loaded ELSE cur.sessionMessages,
        !.chatMessages = IF loadDeps THEN afterLoad ELSE cur.chatMessages]

\* App effect "Handle URL-based session loading": runs when the route
\* parameter or the projects array changed
UrlEffect(prev, cur) ==
  LET HasUrlSession(p) == \E i \in DOMAIN p.sessions : p.sessions[i].id = cur.urlSessionId
      IsUrlSession(x) == x.id = cur.urlSessionId
      project == Find(cur.projects, HasUrlSession)
  IN  IF /\ (cur.urlSessionId # prev.urlSessionId \/ cur.projectsSet)
         /\ HasId(cur.urlSessionId)
         /\ Len(cur.projects) > 0
         /\ project # <<>>
      THEN [cur EXCEPT !.selectedProject = project,
                       !.selectedSession = Find(project[1].sessions, IsUrlSession)]
      ELSE cur

\* the view once all effects have run
SettledFrom(prev, h) ==
  LET a == ChatEffects(prev, h)
      b == UrlEffect(prev, a)
  IN  ChatEffects(a, b)

Settled(h) == SettledFrom(View, h)

AssignView(v) ==
  /\ projects' = v.projects
  /\ selectedProject' = v.selectedProject
  /\ selectedSession' = v.selectedSession
  /\ selectedConversation' = v.selectedConversation
  /\ targetSessionId' = v.targetSessionId
  /\ urlSessionId' = v.urlSessionId
  /\ currentSessionId' = v.currentSessionId
  /\ lastSentSessionId' = v.lastSentSessionId
  /\ chatMessages' = v.chatMessages
  /\ sessionMessages' = v.sessionMessages

Commit(h) == AssignView(Settled(h))

(***************************************************************************)
(* Protection Set updates (App.jsx).                                       *)
(***************************************************************************)
markSessionAsActive(active, sessionId) ==
  IF HasId(sessionId) THEN active \cup {sessionId} ELSE active

markSessionAsInactive(active, sessionId) ==
  IF HasId(sessionId) THEN active \ {sessionId} ELSE active

replaceTemporarySession(active, realSessionId) ==
  IF HasId(realSessionId)
  THEN {id \in active : ~StartsWithNewSession(id)} \cup {realSessionId}
  ELSE active

(***************************************************************************)
(* The sidebar's conversations of a project (getProjectConversations):     *)
(* sessions with the same summary, other than 'New Conversation', form one *)
(* conversation, named after its first session; mostRecent is the member   *)
(* with the latest activity, the first such in list order.                 *)
(***************************************************************************)
Related(sessions, i, k) ==
  /\ sessions[k].summary = sessions[i].summary
  /\ sessions[k].summary # "New Conversation"

ConversationLeaders(sessions) ==
  {i \in DOMAIN sessions : ~\E j \in 1..(i - 1) : Related(sessions, j, i)}

ConversationMembers(sessions, i) ==
  {i} \cup {k \in DOMAIN sessions : k > i /\ Related(sessions, i, k)}

MostRecentMember(sessions, i) ==
  LET m == ConversationMembers(sessions, i)
      best == CHOOSE k \in m :
                /\ \A l \in m : sessions[l].lastActivity <= sessions[k].lastActivity
                /\ \A l \in m : sessions[l].lastActivity = sessions[k].lastActivity => k <= l
  IN  sessions[best].id

getProjectConversations(project) ==
  {[id |-> ConversationId(project.sessions[i].id),
    mostRecent |-> MostRecentMember(project.sessions, i)] :
     i \in ConversationLeaders(project.sessions)}

(***************************************************************************)
(* User actions on the sidebar (App.jsx).                                  *)
(***************************************************************************)
handleProjectSelect(i) ==
  /\ i \in DOMAIN projects
  /\ Commit([View EXCEPT !.selectedProject = <<projects[i]>>,
                         !.selectedSession = <<>>,
                         !.urlSessionId = NoId])
  /\ nClicks' = nClicks + 1
  /\ UNCHANGED <<activeSessions, placeholderSessions, isLoading, claudeStatus,
                 submitting, invocations, now, serverVars, nOutside, serverProjects, latestMessage, nTemp, fetchPending>>

handleSessionSelect(i, j) ==
  /\ i \in DOMAIN projects
  /\ j \in DOMAIN projects[i].sessions
  /\ LET session == projects[i].sessions[j]
     IN  /\ Commit([View EXCEPT !.selectedSession = <<session>>,
                                !.selectedConversation = <<>>,
                                !.targetSessionId = NoId,
                                !.urlSessionId = session.id])
         /\ activeSessions' = IF session.isPlaceholder
                              THEN markSessionAsActive(activeSessions, session.id)
                              ELSE activeSessions
         /\ nClicks' = nClicks + 1
  /\ UNCHANGED <<placeholderSessions, isLoading, claudeStatus, submitting,
                 invocations, now, serverVars, nOutside, serverProjects, latestMessage, nTemp, fetchPending>>

handleConversationSelect(i, c) ==
  /\ i \in DOMAIN projects
  /\ c \in getProjectConversations(projects[i])
  /\ Commit([View EXCEPT !.selectedConversation = <<c>>,
                         !.selectedSession = <<>>,
                         !.targetSessionId = c.mostRecent,
                         !.urlSessionId = c.mostRecent])
  /\ nClicks' = nClicks + 1
  /\ UNCHANGED <<activeSessions, placeholderSessions, isLoading, claudeStatus,
                 submitting, invocations, now, serverVars, nOutside, serverProjects, latestMessage, nTemp, fetchPending>>

handleNewSession(i) ==
  /\ i \in DOMAIN projects
  /\ LET project == projects[i]
         placeholderSessionId == Temp(nTemp + 1)
         placeholderSession == PlaceholderSession(placeholderSessionId, now)
         updatedProject ==
           [project EXCEPT !.sessions = <<placeholderSession>> \o project.sessions,
                           !.total = project.total + 1]
         Replace(p) == IF p.name = project.name THEN updatedProject ELSE p
     IN  /\ placeholderSessions' = Append(placeholderSessions,
              PlaceholderRecord(placeholderSessionId, now, project.name))
         /\ Commit([View EXCEPT !.projects = MapSeq(projects, Replace),
                                !.projectsSet = TRUE,
                                !.selectedProject = <<updatedProject>>,
                                !.selectedSession = <<placeholderSession>>,
                                !.urlSessionId = placeholderSessionId])
         /\ activeSessions' = markSessionAsActive(activeSessions, placeholderSessionId)
         /\ UNCHANGED latestMessage
  /\ nTemp' = nTemp + 1
  /\ nClicks' = nClicks + 1
  /\ UNCHANGED <<isLoading, claudeStatus, submitting, invocations, now, serverVars, nOutside, serverProjects,
                 fetchPending>>

handleSessionDelete(i, j) ==
  /\ i \in DOMAIN projects
  /\ j \in DOMAIN projects[i].sessions
  /\ LET sessionId == projects[i].sessions[j].id
         Other(r) == r.id # sessionId
         Keep(x) == x.id # sessionId
         Without(p) == [p EXCEPT !.sessions = Filter(p.sessions, Keep),
                                 !.total = IF p.total - 1 > 0 THEN p.total - 1 ELSE 0]
         selected == IdOf(selectedSession) = sessionId
     IN  /\ placeholderSessions' = Filter(placeholderSessions, Other)
         /\ Commit([View EXCEPT
              !.selectedSession = IF selected THEN <<>> ELSE selectedSession,
              !.urlSessionId = IF selected THEN NoId ELSE urlSessionId,
              !.projects = MapSeq(projects, Without),
              !.projectsSet = TRUE])
         /\ nClicks' = nClicks + 1
  /\ UNCHANGED <<activeSessions, isLoading, claudeStatus, submitting, invocations,
                 now, serverVars, nOutside, serverProjects, latestMessage, nTemp, fetchPending>>

handleProjectDelete(i) ==
  /\ i \in DOMAIN projects
  /\ LET projectName == projects[i].name
         Keep(p) == p.name # projectName
         selected == NameOf(selectedProject) = projectName
     IN  /\ Commit([View EXCEPT
              !.selectedProject = IF selected THEN <<>> ELSE selectedProject,
              !.selectedSession = IF selected THEN <<>> ELSE selectedSession,
              !.urlSessionId = IF selected THEN NoId ELSE urlSessionId,
              !.projects = Filter(projects, Keep),
              !.projectsSet = TRUE])
         /\ nClicks' = nClicks + 1
  /\ UNCHANGED <<activeSessions, placeholderSessions, isLoading, claudeStatus,
                 submitting, invocations, now, serverVars, nOutside, serverProjects, latestMessage, nTemp, fetchPending>>

(***************************************************************************)
(* The project directory the server reads (server/projects.js: getProjects *)
(* and parseJsonlSessions): at first project "demo" with one session and   *)
(* an empty project "other".  It changes when an invocation writes its     *)
(* session log and when something outside the application changes it.      *)
(***************************************************************************)
FreshId(k) == Real(2 + k)

\* the session log of realId in project name is written at time t
WithLog(dir, name, realId, t) ==
  LET IsIt(x) == x.id = realId
      Touch(x) == IF x.id = realId THEN [x EXCEPT !.lastActivity = t] ELSE x
      InProject(p) ==
        IF p.name # name THEN p
        ELSE IF Some(p.sessions, IsIt)
        THEN [p EXCEPT !.sessions = MapSeq(p.sessions, Touch)]
        ELSE ServerProject(name, <<ServerSession(realId, "New Session", t)>> \o p.sessions)
  IN  MapSeq(dir, InProject)

WithoutLog(dir, id) ==
  LET Keep(x) == x.id # id
      InProject(p) == ServerProject(p.name, Filter(p.sessions, Keep))
  IN  MapSeq(dir, InProject)

HasLog(dir, id) ==
  \E i \in DOMAIN dir : \E j \in DOMAIN dir[i].sessions : dir[i].sessions[j].id = id

\* changes made outside the application: a session appears in "other" or, with
\* the summary of the first session, in "demo"; the first session is deleted
OutsideChanges(dir) ==
  {WithLog(dir, "other", Real(2), 0),
   [WithLog(dir, "demo", Real(2), 0) EXCEPT ![1].sessions[1].summary = "sA"],
   WithoutLog(dir, Real(1))}

OutsideChange(dir) ==
  /\ nOutside < MaxOutsideChanges
  /\ dir \in OutsideChanges(serverProjects)
  /\ dir # serverProjects
  /\ ~HasLog(serverProjects, Real(2))
  /\ serverProjects' = dir
  /\ nOutside' = nOutside + 1
  /\ UNCHANGED <<appVars, chatVars, invocations, now, serverVars, nClicks, nTemp,
                 fetchPending, latestMessage>>

\* the directory of project name is removed outside the application
ProjectRemoved(name) ==
  /\ nOutside < MaxOutsideChanges
  /\ \E i \in DOMAIN serverProjects : serverProjects[i].name = name
  /\ LET Other(p) == p.name # name
     IN  serverProjects' = Filter(serverProjects, Other)
  /\ nOutside' = nOutside + 1
  /\ UNCHANGED <<appVars, chatVars, invocations, now, serverVars, nClicks, nTemp,
                 fetchPending, latestMessage>>

\* the storage addPlaceholderSessions leaves behind
CleanedPlaceholders(stored, projs, t) ==
  LET valid == ValidPlaceholders(stored, projs, t)
  IN  IF Len(valid) # Len(stored) THEN valid ELSE stored

(***************************************************************************)
(* fetchProjects (App.jsx): on mount, and as onProjectUpdate.              *)
(***************************************************************************)
\* the view fetchProjects leaves when the server answers with data
Fetched(v, stored, data, t) ==
  LET dataWithPlaceholders == addPlaceholderSessions(data, stored, t)
      hasChanges == dataWithPlaceholders # v.projects
  IN  [v EXCEPT
         !.projects = IF Len(v.projects) = 0 \/ hasChanges
                      THEN dataWithPlaceholders ELSE v.projects,
         !.projectsSet = (Len(v.projects) = 0 \/ hasChanges)]

fetchProjects(data) ==
  /\ fetchPending
  /\ Commit(Fetched(View, placeholderSessions, data, now))
  /\ placeholderSessions' = CleanedPlaceholders(placeholderSessions, data, now)
  /\ fetchPending' = FALSE
  /\ latestMessage' = latestMessage
  /\ UNCHANGED <<activeSessions, isLoading, claudeStatus, submitting, invocations,
                 now, serverVars, nClicks, nOutside, serverProjects, nTemp>>

(***************************************************************************)
(* handleSidebarRefresh (App.jsx): the sidebar's refresh.                  *)
(***************************************************************************)
handleSidebarRefresh(data) ==
  /\ LET fresh == addPlaceholderSessions(data, placeholderSessions, now)
         SameName(p) == p.name = NameOf(selectedProject)
         SameId(x) == x.id = IdOf(selectedSession)
         refreshedProject == Find(fresh, SameName)
         h0 == [View EXCEPT !.projects = fresh, !.projectsSet = TRUE]
         h1 == IF selectedProject = <<>> THEN h0
               ELSE IF refreshedProject # <<>>
               THEN [h0 EXCEPT
                      !.selectedProject = refreshedProject,
                      !.selectedSession =
                         IF selectedSession = <<>> THEN <<>>
                         ELSE Find(refreshedProject[1].sessions, SameId)]
               ELSE [h0 EXCEPT !.selectedProject = <<>>,
                               !.selectedSession = <<>>,
                               !.urlSessionId = NoId]
     IN  /\ Commit(h1)
         /\ placeholderSessions' = CleanedPlaceholders(placeholderSessions, data, now)
  /\ UNCHANGED <<activeSessions, isLoading, claudeStatus, submitting, invocations,
                 now, serverVars, nClicks, nOutside, serverProjects, latestMessage, nTemp,
                 fetchPending>>

(***************************************************************************)
(* The 'projects_updated' handler (App.jsx).                               *)
(***************************************************************************)
hasActiveSession ==
  \/ selectedSession # <<>> /\ selectedSession[1].id \in activeSessions
  \/ \E id \in activeSessions : StartsWithNewSession(id)

\* whether the handler goes on to apply the snapshot
SnapshotApplies(updatedProjects) ==
  hasActiveSession =>
    isUpdateAdditive(projects, updatedProjects, selectedProject, selectedSession)

projects_updated(updatedProjects) ==
  /\ UNCHANGED <<nClicks, nOutside, serverProjects>>
  /\ IF ~SnapshotApplies(updatedProjects)
    THEN /\ latestMessage' = Message("projects_updated", NoId)
         /\ UNCHANGED <<appVars, chatVars, invocations, now, serverVars, nTemp, fetchPending>>
    ELSE
      LET updatedProjectsWithPlaceholders ==
            addPlaceholderSessions(updatedProjects, placeholderSessions, now)
          SameName(p) == p.name = NameOf(selectedProject)
          SameId(x) == x.id = IdOf(selectedSession)
          updatedSelectedProject == Find(updatedProjectsWithPlaceholders, SameName)
          changed == updatedProjectsWithPlaceholders # projects
          h0 == [View EXCEPT !.projects = updatedProjectsWithPlaceholders,
                             !.projectsSet = changed]
          h1 == IF /\ selectedProject # <<>>
                   /\ updatedSelectedProject # <<>>
                   /\ updatedSelectedProject # selectedProject
                THEN [h0 EXCEPT
                       !.selectedProject = updatedSelectedProject,
                       !.selectedSession =
                          IF /\ selectedSession # <<>>
                             /\ Find(updatedSelectedProject[1].sessions, SameId) = <<>>
                          THEN <<>> ELSE selectedSession]
                ELSE h0
      IN  /\ Commit(h1)
          /\ placeholderSessions' =
               CleanedPlaceholders(placeholderSessions, updatedProjects, now)
          /\ latestMessage' = Message("projects_updated", NoId)
          /\ UNCHANGED <<activeSessions, isLoading, claudeStatus, submitting,
                         invocations, now, serverVars, nTemp, fetchPending>>

(***************************************************************************)
(* replacePlaceholderSession and updateSessionActivity (App.jsx), as       *)
(* updates of a view; the Protection Set and the storage are updated by    *)
(* the operators that follow them.                                         *)
(***************************************************************************)
\* a variant that gives the session its real id and leaves it a placeholder
AsRealSessionStillPlaceholder(session, realSessionId, placeholderSessionId) ==
  IF session.id = placeholderSessionId
  THEN [session EXCEPT !.id = realSessionId]
  ELSE session

AsRealSession(session, realSessionId, placeholderSessionId) ==
  IF session.id = placeholderSessionId
  THEN [session EXCEPT !.id = realSessionId, !.isPlaceholder = FALSE]
  ELSE session

ReplaceInProject(project, realSessionId, placeholderSessionId) ==
  LET R(x) == AsRealSession(x, realSessionId, placeholderSessionId)
  IN  [project EXCEPT !.sessions = MapSeq(project.sessions, R)]

replacePlaceholderSession(v, realSessionId, placeholderSessionId) ==
  LET InProject(p) == ReplaceInProject(p, realSessionId, placeholderSessionId)
      Holds(p) == \E i \in DOMAIN p.sessions : p.sessions[i].id = placeholderSessionId
  IN  IF HasId(realSessionId) /\ HasId(placeholderSessionId)
      THEN [v EXCEPT
             !.selectedSession =
                IF IdOf(v.selectedSession) = placeholderSessionId
                THEN <<AsRealSession(v.selectedSession[1], realSessionId,
                                     placeholderSessionId)>>
                ELSE v.selectedSession,
             !.projects = MapSeq(v.projects, InProject),
             !.projectsSet = TRUE,
             !.selectedProject =
                IF v.selectedProject # <<>> /\ Holds(v.selectedProject[1])
                THEN <<InProject(v.selectedProject[1])>>
                ELSE v.selectedProject]
      ELSE v

replacePlaceholderActive(active, realSessionId, placeholderSessionId) ==
  IF HasId(realSessionId) /\ HasId(placeholderSessionId)
  THEN (active \ {placeholderSessionId}) \cup {realSessionId}
  ELSE active

RemoveStored(stored, placeholderSessionId) ==
  LET Other(r) == r.id # placeholderSessionId IN Filter(stored, Other)

\* the message content is one fixed text, "msg"
WithActivity(session, sessionId, t) ==
  IF session.id # sessionId THEN session
  ELSE IF session.summary = "" \/ session.summary = "New Conversation"
          \/ session.isPlaceholder
       THEN [session EXCEPT !.lastActivity = t, !.summary = "msg", !.title = "msg"]
       ELSE [session EXCEPT !.lastActivity = t]

updateSessionActivity(v, projectName, sessionId, t) ==
  LET A(x) == WithActivity(x, sessionId, t)
      InProject(p) == IF p.name = projectName
                      THEN [p EXCEPT !.sessions = MapSeq(p.sessions, A)] ELSE p
  IN  IF ~HasId(sessionId) THEN v
      ELSE [v EXCEPT
             !.projects = MapSeq(v.projects, InProject),
             !.projectsSet = TRUE,
             !.selectedProject = MapSeq(v.selectedProject, InProject)]

(***************************************************************************)
(* ChatInterface: sessionManager and handleSubmit                          *)
(* (components/DirectoryBrowser.jsx).                                      *)
(***************************************************************************)
getActiveSessionId ==
  IF selectedConversation # <<>>
  THEN IF HasId(targetSessionId) THEN targetSessionId
       ELSE selectedConversation[1].mostRecent
  ELSE IF HasId(currentSessionId) THEN currentSessionId
  ELSE IdOf(selectedSession)

\* the identity passed to onSessionActive and onSessionInactive
ProtectionKey(fresh) ==
  IF selectedConversation # <<>> THEN ConversationMarker(selectedConversation[1].id)
  ELSE IF HasId(getActiveSessionId) THEN getActiveSessionId
  ELSE fresh

nSubmits == Len(invocations) + Len(submitting)

\* handleSubmit up to its await: the user message is shown and the session
\* is protected
handleSubmitStart ==
  /\ ~isLoading
  /\ selectedProject # <<>>
  /\ submitting = <<>>
  /\ LET sessionToActivate == ProtectionKey(NewSessionMarker(nSubmits + 1))
     IN  /\ activeSessions' = markSessionAsActive(activeSessions, sessionToActivate)
         /\ submitting' = <<[sessionIdToUse |-> getActiveSessionId,
                             projectName |-> selectedProject[1].name,
                             sessionToActivate |-> sessionToActivate]>>
         /\ latestMessage' = latestMessage
  /\ chatMessages' = Append(chatMessages, "user")
  /\ isLoading' = TRUE
  /\ claudeStatus' = TRUE
  /\ UNCHANGED <<projects, selectedProject, selectedSession, selectedConversation,
                 targetSessionId, urlSessionId, placeholderSessions, currentSessionId,
                 lastSentSessionId, sessionMessages, invocations, now, serverVars, nClicks, nOutside, serverProjects, nTemp,
                 fetchPending>>

MarkPending(stored, sessionId, t) ==
  LET M(r) == IF r.id = sessionId
              THEN [r EXCEPT !.pendingConversion = TRUE, !.pendingConversionTime = t]
              ELSE r
  IN  IF StartsWithTemp(sessionId) THEN MapSeq(stored, M) ELSE stored

\* the server's record of one 'claude-command' (spawnClaude)
Invocation(k, sessionId, projectName) ==
  [sessionId |-> sessionId,
   projectName |-> projectName,
   realId |-> IF HasId(sessionId) /\ ~StartsWithTemp(sessionId)
              THEN sessionId ELSE FreshId(k),
   capturedSessionId |-> sessionId,
   sessionCreatedSent |-> FALSE,
   running |-> TRUE,
   logged |-> FALSE,
   scanPending |-> FALSE,
   responses |-> 0]

\* handleSubmit after its await: the command is dispatched
handleSubmitSend ==
  /\ submitting # <<>>
  /\ LET sessionIdToUse == submitting[1].sessionIdToUse
         h0 == [View EXCEPT !.lastSentSessionId = sessionIdToUse]
         h1 == IF HasId(sessionIdToUse) /\ ~StartsWithTemp(sessionIdToUse)
               THEN updateSessionActivity(h0, submitting[1].projectName,
                                          sessionIdToUse, now)
               ELSE h0
     IN  /\ placeholderSessions' = MarkPending(placeholderSessions, sessionIdToUse, now)
         /\ invocations' = Append(invocations,
              Invocation(Len(invocations) + 1, sessionIdToUse,
                         submitting[1].projectName))
         /\ Commit(h1)
         /\ latestMessage' = latestMessage
  /\ submitting' = <<>>
  /\ UNCHANGED <<activeSessions, isLoading, claudeStatus, now, serverVars, nClicks, nOutside, serverProjects, nTemp,
                 fetchPending>>

(***************************************************************************)
(* ChatInterface: handleWebSocketMessage, one operator per message type.   *)
(* Each gives the client's step on receiving the message; the server       *)
(* actions below send the message and take that step.                      *)
(***************************************************************************)
ClientState ==
  [v |-> View, activeSessions |-> activeSessions,
   placeholderSessions |-> placeholderSessions, fetchPending |-> fetchPending]

\* the 'session-created' branch of handleWebSocketMessage, as a function of the
\* client's state
HandleSessionCreated(st, sessionId) ==
  IF HasId(sessionId) /\ ~HasId(st.v.currentSessionId)
  THEN LET last == st.v.lastSentSessionId
           isReplacingPlaceholder == HasId(last) /\ StartsWithTemp(last)
           h0 == [st.v EXCEPT !.currentSessionId = sessionId,
                              !.lastSentSessionId = NoId]
       IN  IF isReplacingPlaceholder
           THEN [v |-> SettledFrom(st.v, replacePlaceholderSession(h0, sessionId, last)),
                 activeSessions |->
                   replacePlaceholderActive(st.activeSessions, sessionId, last),
                 placeholderSessions |-> RemoveStored(st.placeholderSessions, last),
                 fetchPending |-> st.fetchPending]
           ELSE [v |-> SettledFrom(st.v, h0),
                 activeSessions |-> replaceTemporarySession(st.activeSessions, sessionId),
                 placeholderSessions |-> st.placeholderSessions,
                 fetchPending |-> TRUE]
  ELSE st

OnSessionCreated(sessionId) ==
  LET st == HandleSessionCreated(ClientState, sessionId)
  IN  /\ AssignView(st.v)
      /\ activeSessions' = st.activeSessions
      /\ placeholderSessions' = st.placeholderSessions
      /\ fetchPending' = st.fetchPending
      /\ latestMessage' = Message("session-created", sessionId)

OnClaudeResponse ==
  /\ chatMessages' = Append(chatMessages, "assistant")
  /\ latestMessage' = Message("claude-response", NoId)
  /\ UNCHANGED <<appVars, currentSessionId, lastSentSessionId, isLoading,
                 claudeStatus, sessionMessages, submitting, fetchPending>>

\* 'claude-complete' (interrupted = FALSE) and 'session-aborted' (TRUE)
OnTerminal(type, interrupted) ==
  /\ isLoading' = FALSE
  /\ claudeStatus' = FALSE
  /\ lastSentSessionId' = NoId
  /\ activeSessions' = markSessionAsInactive(activeSessions, ProtectionKey(NoId))
  /\ chatMessages' = IF interrupted THEN Append(chatMessages, "interrupted")
                     ELSE chatMessages
  /\ latestMessage' = Message(type, NoId)
  /\ UNCHANGED <<projects, selectedProject, selectedSession, selectedConversation,
                 targetSessionId, urlSessionId, placeholderSessions, currentSessionId,
                 sessionMessages, submitting, fetchPending>>

(***************************************************************************)
(* The server side of an invocation (spawnClaude, abortClaudeSession,      *)
(* handleChatConnection), each step with the client's handling of the      *)
(* message it sends.                                                       *)
(***************************************************************************)
NeedsIdentity(inv) == ~HasId(inv.sessionId) \/ StartsWithTemp(inv.sessionId)
NotCaptured(inv) == ~HasId(inv.capturedSessionId) \/ StartsWithTemp(inv.capturedSessionId)

\* a stdout line carrying the session id: captured, 'session-created' sent
ServerCapturesIdentity(k) ==
  /\ k \in DOMAIN invocations
  /\ invocations[k].running
  /\ NotCaptured(invocations[k])
  /\ NeedsIdentity(invocations[k])
  /\ ~invocations[k].sessionCreatedSent
  /\ invocations' = [invocations EXCEPT ![k].capturedSessionId = invocations[k].realId,
                                        ![k].sessionCreatedSent = TRUE]
  /\ OnSessionCreated(invocations[k].realId)
  /\ UNCHANGED <<isLoading, claudeStatus, submitting, now, serverVars, nClicks, nOutside, serverProjects, nTemp>>

\* the subprocess writes its session log
ServerWritesLog(k) ==
  /\ k \in DOMAIN invocations
  /\ invocations[k].running
  /\ ~invocations[k].logged
  /\ \E i \in DOMAIN serverProjects : serverProjects[i].name = invocations[k].projectName
  /\ serverProjects' = WithLog(serverProjects, invocations[k].projectName,
                               invocations[k].realId, now)
  /\ invocations' = [invocations EXCEPT ![k].logged = TRUE]
  /\ UNCHANGED <<appVars, chatVars, now, serverVars, nClicks, nOutside, nTemp, fetchPending,
                 latestMessage>>

\* a stdout line: 'claude-response'
ServerResponds(k) ==
  /\ k \in DOMAIN invocations
  /\ invocations[k].running
  /\ invocations[k].responses < MaxResponses
  /\ invocations' = [invocations EXCEPT ![k].responses = @ + 1]
  /\ OnClaudeResponse
  /\ UNCHANGED <<now, serverVars, nClicks, nOutside, serverProjects, nTemp>>

\* the subprocess closes: 'claude-complete'; after exit code 0 the
\* directory scan is scheduled
ServerCloses(k, code) ==
  /\ k \in DOMAIN invocations
  /\ invocations[k].running
  /\ invocations' = [invocations EXCEPT ![k].running = FALSE,
                                        ![k].scanPending = (code = 0)]
  /\ OnTerminal("claude-complete", FALSE)
  /\ UNCHANGED <<now, serverVars, nClicks, nOutside, serverProjects, nTemp>>

\* the post-exit scan finds the session file: 'session-created' unless sent
ServerScans(k) ==
  /\ k \in DOMAIN invocations
  /\ invocations[k].scanPending
  /\ IF invocations[k].logged /\ NotCaptured(invocations[k]) /\ ~invocations[k].sessionCreatedSent
     THEN /\ invocations' = [invocations EXCEPT
                               ![k].scanPending = FALSE,
                               ![k].capturedSessionId = invocations[k].realId,
                               ![k].sessionCreatedSent = TRUE]
          /\ OnSessionCreated(invocations[k].realId)
          /\ UNCHANGED <<isLoading, claudeStatus, submitting>>
     ELSE /\ invocations' = [invocations EXCEPT ![k].scanPending = FALSE]
          /\ latestMessage' = latestMessage
          /\ UNCHANGED <<appVars, chatVars, fetchPending>>
  /\ UNCHANGED <<now, serverVars, nClicks, nOutside, serverProjects, nTemp>>

\* handleAbortSession: 'abort-session' is sent with the active identity and
\* the server answers 'session-aborted'
handleAbortSession ==
  /\ HasId(getActiveSessionId)
  /\ claudeStatus
  /\ OnTerminal("session-aborted", TRUE)
  /\ UNCHANGED <<invocations, now, serverVars, nClicks, nOutside, serverProjects, nTemp>>

(***************************************************************************)
(* Spec: the client with the server's invocations over a project directory *)
(* that only the invocations change; conversations start from a            *)
(* placeholder, from an existing session, from a sidebar conversation or   *)
(* with no session selected.                                               *)
(***************************************************************************)
Next ==
  \/ fetchProjects(serverProjects)
  \/ projects_updated(serverProjects)
  \/ nClicks < MaxClicks /\ \E i \in DOMAIN projects : handleProjectSelect(i)
  \/ nClicks < MaxClicks /\ \E i \in DOMAIN projects :
       \E j \in DOMAIN projects[i].sessions : handleSessionSelect(i, j)
  \/ nClicks < MaxClicks /\ \E i \in DOMAIN projects :
       \E c \in getProjectConversations(projects[i]) : handleConversationSelect(i, c)
  \/ nClicks < MaxClicks /\ nTemp < MaxPlaceholders
       /\ \E i \in DOMAIN projects : handleNewSession(i)
  \/ nSubmits < MaxSubmits /\ handleSubmitStart
  \/ handleSubmitSend
  \/ handleAbortSession
  \/ \E k \in DOMAIN invocations : ServerWritesLog(k)
  \/ \E k \in DOMAIN invocations : ServerCapturesIdentity(k)
  \/ \E k \in DOMAIN invocations : ServerResponds(k)
  \/ \E k \in DOMAIN invocations : \E code \in {0, 1} : ServerCloses(k, code)
  \/ \E k \in DOMAIN invocations : ServerScans(k)

Spec == Init /\ [][Next]_vars

(***************************************************************************)
(* SpecDirectory: the same client and server without placeholders, while   *)
(* the project directory also changes from outside.                        *)
(***************************************************************************)
NextDirectory ==
  \/ fetchProjects(serverProjects)
  \/ projects_updated(serverProjects)
  \/ \E dir \in OutsideChanges(serverProjects) : OutsideChange(dir)
  \/ nClicks < MaxClicks /\ \E i \in DOMAIN projects : handleProjectSelect(i)
  \/ nClicks < MaxClicks /\ \E i \in DOMAIN projects :
       \E j \in DOMAIN projects[i].sessions : handleSessionSelect(i, j)
  \/ nClicks < MaxClicks /\ \E i \in DOMAIN projects :
       \E c \in getProjectConversations(projects[i]) : handleConversationSelect(i, c)
  \/ nSubmits < MaxSubmits /\ handleSubmitStart
  \/ handleSubmitSend
  \/ handleAbortSession
  \/ \E k \in DOMAIN invocations : ServerWritesLog(k)
  \/ \E k \in DOMAIN invocations : ServerCapturesIdentity(k)
  \/ \E k \in DOMAIN invocations : \E code \in {0, 1} : ServerCloses(k, code)
  \/ \E k \in DOMAIN invocations : ServerScans(k)

SpecDirectory == Init /\ [][NextDirectory]_vars

(***************************************************************************)
(* SpecResubmit: two placeholders and two messages, up to the server's     *)
(* 'session-created', without snapshots from the server.                   *)
(***************************************************************************)
NextResubmit ==
  \/ fetchProjects(serverProjects)
  \/ nClicks < MaxResubmitClicks /\ \E i \in DOMAIN projects : handleProjectSelect(i)
  \/ nClicks < MaxResubmitClicks /\ nTemp < MaxResubmitPlaceholders
       /\ \E i \in DOMAIN projects : handleNewSession(i)
  \/ nSubmits < MaxResubmits /\ handleSubmitStart
  \/ handleSubmitSend
  \/ handleAbortSession
  \/ \E k \in DOMAIN invocations : ServerCapturesIdentity(k)

SpecResubmit == Init /\ [][NextResubmit]_vars

(***************************************************************************)
(* SpecRemoval: placeholders while a project directory is removed from     *)
(* outside; no message is sent.                                            *)
(***************************************************************************)
NextRemoval ==
  \/ fetchProjects(serverProjects)
  \/ projects_updated(serverProjects)
  \/ \E i \in DOMAIN serverProjects : ProjectRemoved(serverProjects[i].name)
  \/ nClicks < MaxClicks /\ \E i \in DOMAIN projects : handleProjectSelect(i)
  \/ nClicks < MaxClicks /\ \E i \in DOMAIN projects :
       \E j \in DOMAIN projects[i].sessions : handleSessionSelect(i, j)
  \/ nClicks < MaxClicks /\ nTemp < MaxPlaceholders
       /\ \E i \in DOMAIN projects : handleNewSession(i)

SpecRemoval == Init /\ [][NextRemoval]_vars

(***************************************************************************)
(* SpecTitle: conversations in the first project, one from a placeholder   *)
(* and one with no session selected, up to their 'claude-complete';        *)
(* the directory changes only by the invocations' logs.                    *)
(***************************************************************************)
NextTitle ==
  \/ fetchProjects(serverProjects)
  \/ projects_updated(serverProjects)
  \/ nClicks < MaxTitleClicks /\ 1 \in DOMAIN projects /\ handleProjectSelect(1)
  \/ nClicks < MaxTitleClicks /\ 1 \in DOMAIN projects
       /\ \E j \in DOMAIN projects[1].sessions : handleSessionSelect(1, j)
  \/ nClicks < MaxTitleClicks /\ nTemp < MaxPlaceholders
       /\ 1 \in DOMAIN projects /\ handleNewSession(1)
  \/ nSubmits < MaxResubmits /\ handleSubmitStart
  \/ handleSubmitSend
  \/ \E k \in DOMAIN invocations : ServerWritesLog(k)
  \/ \E k \in DOMAIN invocations : ServerCapturesIdentity(k)
  \/ \E k \in DOMAIN invocations : ServerCloses(k, 0)

SpecTitle == Init /\ [][NextTitle]_vars

(***************************************************************************)
(* The Process Bridge by itself: spawnClaude and abortClaudeSession        *)
(* (components/DirectoryBrowser.jsx) as handleChatConnection               *)
(* (server/index.js) calls them for the 'claude-command' and               *)
(* 'abort-session' messages of its clients.  The commands are non-empty    *)
(* texts, as handleSubmit sends them.                                      *)
(***************************************************************************)
clientVars == <<appVars, chatVars, invocations, now, nClicks, nOutside,
                serverProjects, nTemp, fetchPending, latestMessage>>

\* Date.now().toString(), the key of a subprocess started without an id
TimeKey(k) == <<"time", "", k>>

\* the session id the CLI run by the k-th call reports and logs under
AssignedId(k) == Real(10 + k)

\* a message sent with ws.send; proc names the spawnClaude call whose
\* handler sent it or whose subprocess an abort signalled (0: none)
Sent(type, sessionId, proc, flag) ==
  [type |-> type, sessionId |-> sessionId, proc |-> proc, flag |-> flag]

\* ws.send of the messages ms: wsSent counts the messages sent
Send(sent, ms) == sent (+) SetToBag(ms)

\* Map.prototype.set and Map.prototype.delete
MapSet(map, key, value) ==
  [x \in DOMAIN map \cup {key} |-> IF x = key THEN value ELSE map[x]]

MapDelete(map, key) == [x \in DOMAIN map \ {key} |-> map[x]]

\* the closure variables of a spawnClaude call and its subprocess
ClaudeProcess(sessionId, processKey, status) ==
  [sessionId |-> sessionId, capturedSessionId |-> sessionId,
   sessionCreatedSent |-> FALSE, processKey |-> processKey,
   status |-> status, signalled |-> FALSE, settled |-> FALSE,
   scanPending |-> FALSE, lines |-> 0]

\* 'claude-command': spawnClaude(command, options, ws); the CLI is looked
\* up on the first call and the answer is cached
spawnClaude(sessionId, found) ==
  LET k == Len(claudeProcesses) + 1
      config == IF claudeCommand = "null"
                THEN (IF found THEN "claude" ELSE "none")
                ELSE claudeCommand
      processKey == IF HasId(sessionId) THEN sessionId ELSE TimeKey(k)
  IN  /\ claudeCommand' = config
      /\ IF config = "none"
         THEN /\ wsSent' = Send(wsSent, {Sent("claude-error", NoId, k, FALSE)})
              /\ claudeProcesses' =
                   Append(claudeProcesses, ClaudeProcess(sessionId, NoId, "notfound"))
              /\ UNCHANGED activeClaudeProcesses
         ELSE /\ activeClaudeProcesses' = MapSet(activeClaudeProcesses, processKey, k)
              /\ claudeProcesses' =
                   Append(claudeProcesses, ClaudeProcess(sessionId, processKey, "running"))
              /\ UNCHANGED wsSent
      /\ UNCHANGED <<clientVars, stdoutVars, readerVars, pathVars, watcherVars, projectsVars, transcriptVars, truncateVars, snapshotVars, dedupVars, deleteVars>>

\* stdout 'data' with one JSON line, carrying the session id or not
OnStdoutLine(k, withId) ==
  LET p == claudeProcesses[k]
      possibleSessionId == IF withId THEN AssignedId(k) ELSE NoId
      captures == HasId(possibleSessionId) /\ NotCaptured(p)
      capturedSessionId == IF captures THEN possibleSessionId ELSE p.capturedSessionId
      sends == captures /\ NeedsIdentity(p) /\ ~p.sessionCreatedSent
  IN  /\ p.status = "running"
      /\ activeClaudeProcesses' =
           IF captures /\ p.processKey # capturedSessionId
           THEN MapSet(MapDelete(activeClaudeProcesses, p.processKey),
                       capturedSessionId, k)
           ELSE activeClaudeProcesses
      /\ claudeProcesses' =
           [claudeProcesses EXCEPT ![k].capturedSessionId = capturedSessionId,
                                   ![k].sessionCreatedSent = p.sessionCreatedSent \/ sends,
                                   ![k].lines = p.lines + 1]
      /\ wsSent' =
           Send(wsSent,
                {Sent("claude-response", NoId, k, TRUE)}
                  \cup (IF sends
                        THEN {Sent("session-created", capturedSessionId, k, TRUE)}
                        ELSE {}))
      /\ UNCHANGED <<claudeCommand, clientVars, stdoutVars, readerVars, pathVars, watcherVars, projectsVars, transcriptVars, truncateVars, snapshotVars, dedupVars, deleteVars>>

\* capturedSessionId || sessionId || processKey
finalSessionId(p) ==
  IF HasId(p.capturedSessionId) THEN p.capturedSessionId
  ELSE IF HasId(p.sessionId) THEN p.sessionId
  ELSE p.processKey

\* the 'close' handler; a rejection reaches the catch of the message
\* handler, which sends 'error', unless the promise is settled already
OnClose(k, code) ==
  LET p == claudeProcesses[k]
  IN  /\ p.status \in {"running", "errored"}
      /\ activeClaudeProcesses' = MapDelete(activeClaudeProcesses, finalSessionId(p))
      /\ claudeProcesses' = [claudeProcesses EXCEPT ![k].status = "closed",
                                                    ![k].settled = TRUE,
                                                    ![k].scanPending = (code = 0)]
      /\ wsSent' =
           Send(wsSent,
                {Sent("claude-complete", NoId, k, code = 0)}
                  \cup (IF code # 0 /\ ~p.settled
                        THEN {Sent("error", NoId, k, FALSE)} ELSE {}))
      /\ UNCHANGED <<claudeCommand, clientVars, stdoutVars, readerVars, pathVars, watcherVars, projectsVars, transcriptVars, truncateVars, snapshotVars, dedupVars, deleteVars>>

\* the 'error' handler; whether 'close' follows is up to the runtime
OnError(k) ==
  LET p == claudeProcesses[k]
  IN  /\ p.status = "running"
      /\ activeClaudeProcesses' = MapDelete(activeClaudeProcesses, finalSessionId(p))
      /\ claudeProcesses' = [claudeProcesses EXCEPT ![k].status = "errored",
                                                    ![k].settled = TRUE]
      /\ wsSent' =
           Send(wsSent,
                {Sent("claude-error", NoId, k, FALSE)}
                  \cup (IF ~p.settled THEN {Sent("error", NoId, k, FALSE)} ELSE {}))
      /\ UNCHANGED <<claudeCommand, clientVars, stdoutVars, readerVars, pathVars, watcherVars, projectsVars, transcriptVars, truncateVars, snapshotVars, dedupVars, deleteVars>>

\* a variant of the scan that announces whatever it finds
OnScanUnguarded(k, found) ==
  LET p == claudeProcesses[k]
  IN  /\ p.scanPending
      /\ claudeProcesses' =
           [claudeProcesses EXCEPT
              ![k].scanPending = FALSE,
              ![k].capturedSessionId =
                 IF found THEN AssignedId(k) ELSE p.capturedSessionId,
              ![k].sessionCreatedSent = p.sessionCreatedSent \/ found]
      /\ wsSent' =
           IF found
           THEN Send(wsSent, {Sent("session-created", AssignedId(k), k, TRUE)})
           ELSE wsSent
      /\ UNCHANGED <<claudeCommand, activeClaudeProcesses, clientVars, stdoutVars, readerVars, pathVars, watcherVars, projectsVars, transcriptVars, truncateVars, snapshotVars, dedupVars, deleteVars>>

\* the timer of the 'close' handler: the scan of the project directories
\* finds the session file of this command or does not
OnScan(k, found) ==
  LET p == claudeProcesses[k]
      captures == found /\ NotCaptured(p)
      sends == captures /\ ~p.sessionCreatedSent
  IN  /\ p.scanPending
      /\ claudeProcesses' =
           [claudeProcesses EXCEPT
              ![k].scanPending = FALSE,
              ![k].capturedSessionId =
                 IF captures THEN AssignedId(k) ELSE p.capturedSessionId,
              ![k].sessionCreatedSent = p.sessionCreatedSent \/ sends]
      /\ wsSent' =
           IF sends
           THEN Send(wsSent, {Sent("session-created", AssignedId(k), k, TRUE)})
           ELSE wsSent
      /\ UNCHANGED <<claudeCommand, activeClaudeProcesses, clientVars, stdoutVars, readerVars, pathVars, watcherVars, projectsVars, transcriptVars, truncateVars, snapshotVars, dedupVars, deleteVars>>

\* a variant of abortClaudeSession that signals and keeps the entry
abortClaudeSessionKeepsEntry(sessionId) ==
  IF sessionId \in DOMAIN activeClaudeProcesses
  THEN [table |-> activeClaudeProcesses,
        processes |-> [claudeProcesses EXCEPT
                         ![activeClaudeProcesses[sessionId]].signalled = TRUE],
        signalled |-> activeClaudeProcesses[sessionId],
        success |-> TRUE]
  ELSE [table |-> activeClaudeProcesses, processes |-> claudeProcesses,
        signalled |-> 0, success |-> FALSE]

\* abortClaudeSession(sessionId): the table and the subprocesses it leaves,
\* and what it returns
abortClaudeSession(sessionId) ==
  IF sessionId \in DOMAIN activeClaudeProcesses
  THEN [table |-> MapDelete(activeClaudeProcesses, sessionId),
        processes |-> [claudeProcesses EXCEPT
                         ![activeClaudeProcesses[sessionId]].signalled = TRUE],
        signalled |-> activeClaudeProcesses[sessionId],
        success |-> TRUE]
  ELSE [table |-> activeClaudeProcesses, processes |-> claudeProcesses,
        signalled |-> 0, success |-> FALSE]

\* 'abort-session' (handleChatConnection)
OnAbortSession(sessionId) ==
  LET r == abortClaudeSession(sessionId)
  IN  /\ activeClaudeProcesses' = r.table
      /\ claudeProcesses' = r.processes
      /\ wsSent' =
           Send(wsSent, {Sent("session-aborted", sessionId, r.signalled, r.success)})
      /\ UNCHANGED <<claudeCommand, clientVars, stdoutVars, readerVars, pathVars, watcherVars, projectsVars, transcriptVars, truncateVars, snapshotVars, dedupVars, deleteVars>>

\* how many messages of this type the server has sent
nSent(type) ==
  LET ofType == {m \in BagToSet(wsSent) : m.type = type}
      Sum[S \in SUBSET ofType] ==
        IF S = {} THEN 0
        ELSE LET m == CHOOSE x \in S : TRUE
             IN  CopiesIn(m, wsSent) + Sum[S \ {m}]
  IN  Sum[ofType]

nAborts == nSent("session-aborted")

\* the identities the clients name in their messages
ClientIds == {NoId, Temp(1), Real(1)}
AbortIds == {Temp(1), Real(1)} \cup {AssignedId(k) : k \in 1..MaxInvocations}

NextBridge ==
  \/ Len(claudeProcesses) < MaxInvocations
       /\ \E sessionId \in ClientIds : \E found \in BOOLEAN : spawnClaude(sessionId, found)
  \/ \E k \in DOMAIN claudeProcesses : \E withId \in BOOLEAN :
       claudeProcesses[k].lines < MaxLines /\ OnStdoutLine(k, withId)
  \/ \E k \in DOMAIN claudeProcesses : \E code \in {0, 1} : OnClose(k, code)
  \/ \E k \in DOMAIN claudeProcesses : OnError(k)
  \/ \E k \in DOMAIN claudeProcesses : \E found \in BOOLEAN : OnScan(k, found)
  \/ nAborts < MaxAborts /\ \E sessionId \in AbortIds : OnAbortSession(sessionId)

SpecBridge == Init /\ [][NextBridge]_vars

(***************************************************************************)
(* SpecBridgeLive: SpecBridge where every running subprocess exits in the  *)
(* end, so that its 'close' handler runs.                                  *)
(***************************************************************************)
Exits(k) ==
  /\ k \in DOMAIN claudeProcesses
  /\ claudeProcesses[k].status = "running"
  /\ \E code \in {0, 1} : OnClose(k, code)

SpecBridgeLive ==
  SpecBridge /\ \A k \in 1..MaxInvocations : WF_vars(Exits(k))

(***************************************************************************)
(* The stdout handler of spawnClaude by itself, over every output of up to *)
(* MaxOutput characters and every way the 'data' events cut it in chunks.  *)
(* The characters are "{", "}", "x" and the newline; of the lines made of  *)
(* them JSON.parse accepts "{}" alone.                                     *)
(***************************************************************************)
Chars == {"{", "}", "x", "\n"}

Texts == UNION {[1..n -> Chars] : n \in 1..MaxOutput}

\* String.prototype.split('\n')
RECURSIVE Split(_)
Split(text) ==
  IF \A i \in DOMAIN text : text[i] # "\n" THEN <<text>>
  ELSE LET i == CHOOSE n \in DOMAIN text :
                  text[n] = "\n" /\ \A m \in 1..(n - 1) : text[m] # "\n"
       IN  <<SubSeq(text, 1, i - 1)>> \o Split(SubSeq(text, i + 1, Len(text)))

IsJson(line) == line = <<"{", "}">>

\* the event sent for one line
LineEvent(line) ==
  IF IsJson(line) THEN [type |-> "claude-response", data |-> line]
  ELSE [type |-> "claude-output", data |-> line]

\* the events the handler sends for one chunk
StdoutEvents(rawOutput) ==
  LET NotBlank(line) == line # <<>>
      lines == Filter(Split(rawOutput), NotBlank)
  IN  MapSeq(lines, LineEvent)

\* stdout 'data' with the next n characters of the output
OnStdoutData(n) ==
  /\ n \in 1..(Len(stdoutText) - stdoutRead)
  /\ forwarded' =
       forwarded \o StdoutEvents(SubSeq(stdoutText, stdoutRead + 1, stdoutRead + n))
  /\ stdoutRead' = stdoutRead + n
  /\ UNCHANGED <<stdoutText, clientVars, claudeCommand, activeClaudeProcesses,
                 claudeProcesses, wsSent, readerVars, pathVars, watcherVars, projectsVars, transcriptVars, truncateVars, snapshotVars, dedupVars, deleteVars>>

InitStdout ==
  /\ InitProgram
  /\ NoDeletion
  /\ NoInbound
  /\ NoSnapshots
  /\ NoTruncation
  /\ NoTranscript
  /\ NoProjects
  /\ NoWatcher
  /\ NoPaths
  /\ NoLogs
  /\ stdoutText \in Texts
  /\ stdoutRead = 0
  /\ forwarded = <<>>

NextStdout == \E n \in 1..MaxOutput : OnStdoutData(n)

SpecStdout == InitStdout /\ [][NextStdout]_vars

(***************************************************************************)
(* getSessions and parseJsonlSessions (server/projects.js) by themselves,  *)
(* over every project directory of up to MaxFiles log files with up to     *)
(* MaxEntries entries each.  An entry is its sessionId and its timestamp;  *)
(* no entry is a summary or a user message with text, so every summary     *)
(* stays 'New Session'.                                                    *)
(***************************************************************************)
LogEntry(sessionId, timestamp) == [sessionId |-> sessionId, timestamp |-> timestamp]

LogFile(mtime, entries) == [mtime |-> mtime, entries |-> entries]

LogEntries == {LogEntry(id, t) : id \in {Real(1), Real(2)}, t \in 1..2}

LogFiles ==
  {LogFile(mtime, entries) :
     mtime \in 1..2, entries \in UNION {[1..n -> LogEntries] : n \in 1..MaxEntries}}

\* Array.prototype.sort (stable) of s, larger keys first
SortDescending(s, Key(_)) ==
  LET Before(i, j) == Key(s[i]) > Key(s[j]) \/ (Key(s[i]) = Key(s[j]) /\ i < j)
      at(k) == CHOOSE i \in DOMAIN s :
                 Cardinality({j \in DOMAIN s : Before(j, i)}) = k - 1
  IN  [k \in DOMAIN s |-> s[at(k)]]

\* the session ids of the entries, in order of first appearance (the
\* insertion order of the Map)
RECURSIVE FirstAppearances(_)
FirstAppearances(entries) ==
  IF entries = <<>> THEN <<>>
  ELSE LET front == FirstAppearances(SubSeq(entries, 1, Len(entries) - 1))
           id == entries[Len(entries)].sessionId
       IN  IF id \in Range(front) THEN front ELSE Append(front, id)

\* the record parseJsonlSessions builds for the session from the entries
ParsedSession(entries, id) ==
  LET mine == {i \in DOMAIN entries : entries[i].sessionId = id}
      last == CHOOSE i \in mine : \A j \in mine : j <= i
  IN  [id |-> id, summary |-> "New Session", messageCount |-> Cardinality(mine),
       lastActivity |-> entries[last].timestamp]

parseJsonlSessions(file) ==
  LET ids == FirstAppearances(file.entries)
      sessions == [k \in DOMAIN ids |-> ParsedSession(file.entries, ids[k])]
      LastActivity(x) == x.lastActivity
  IN  SortDescending(sessions, LastActivity)

\* a variant of the merge in which a later file replaces the record
MergeSessionsLastWins(allSessions, sessions) ==
  LET Stays(x) == \A i \in DOMAIN sessions : sessions[i].id # x.id
  IN  Filter(allSessions, Stays) \o sessions

\* sessions.forEach: set unless allSessions has the id
MergeSessions(allSessions, sessions) ==
  LET IsNew(x) == \A i \in DOMAIN allSessions : allSessions[i].id # x.id
  IN  allSessions \o Filter(sessions, IsNew)

\* allSessions after the first n files of the sorted list
RECURSIVE Scanned(_, _)
Scanned(files, n) ==
  IF n = 0 THEN <<>>
  ELSE MergeSessions(Scanned(files, n - 1), parseJsonlSessions(files[n]))

Min(a, b) == IF a < b THEN a ELSE b

\* the number of files processed when the loop ends or breaks
ProcessedCount(files, limit, offset) ==
  LET Breaks(n) == /\ Len(Scanned(files, n)) >= (limit + offset) * 2
                   /\ n >= Min(3, Len(files))
  IN  IF \E n \in DOMAIN files : Breaks(n)
      THEN CHOOSE n \in DOMAIN files : Breaks(n) /\ \A m \in 1..(n - 1) : ~Breaks(m)
      ELSE Len(files)

\* fs.readdir of the project directory; both callers answer ENOENT as
\* they answer a directory without log files
readdir == IF projectDirExists THEN logFiles ELSE <<>>

getSessions(files, limit, offset) ==
  IF files = <<>> THEN [sessions |-> <<>>, hasMore |-> FALSE, total |-> 0]
  ELSE
    LET Mtime(f) == f.mtime
        LastActivity(x) == x.lastActivity
        filesWithStats == SortDescending(files, Mtime)
        allSessions == Scanned(filesWithStats,
                               ProcessedCount(filesWithStats, limit, offset))
        sortedSessions == SortDescending(allSessions, LastActivity)
        total == Len(sortedSessions)
    IN  [sessions |-> SubSeq(sortedSessions, offset + 1, Min(offset + limit, total)),
         hasMore |-> offset + limit < total,
         total |-> total, offset |-> offset, limit |-> limit]

\* a request for the sessions of the project
OnGetSessions(limit, offset) ==
  /\ sessionsResult = <<>>
  /\ sessionsResult' = <<getSessions(readdir, limit, offset)>>
  /\ UNCHANGED <<logFiles, projectDirExists, messagesResult, clientVars,
                 claudeCommand, activeClaudeProcesses, claudeProcesses, wsSent,
                 stdoutVars, pathVars, watcherVars, projectsVars, transcriptVars, truncateVars, snapshotVars, dedupVars, deleteVars>>

InitSessions ==
  /\ InitProgram
  /\ NoDeletion
  /\ NoInbound
  /\ NoSnapshots
  /\ NoTruncation
  /\ NoTranscript
  /\ NoProjects
  /\ NoWatcher
  /\ NoPaths
  /\ NoOutput
  /\ logFiles \in UNION {[1..n -> LogFiles] : n \in 1..MaxFiles}
  /\ sessionsResult = <<>>
  /\ projectDirExists = TRUE
  /\ messagesResult = <<>>

NextSessions == \E limit \in {1, 5} : OnGetSessions(limit, 0)

SpecSessions == InitSessions /\ [][NextSessions]_vars

(***************************************************************************)
(* SpecPaging: getSessions page by page, over project directories of up    *)
(* to MaxPagedFiles log files that hold one entry each, written when the   *)
(* file was last modified.                                                 *)
(***************************************************************************)
PagedFiles ==
  {LogFile(t, <<LogEntry(id, t)>>) : id \in {Real(1), Real(2), Real(3)}, t \in 1..2}

InitPaging ==
  /\ InitProgram
  /\ NoDeletion
  /\ NoInbound
  /\ NoSnapshots
  /\ NoTruncation
  /\ NoTranscript
  /\ NoProjects
  /\ NoWatcher
  /\ NoPaths
  /\ NoOutput
  /\ logFiles \in UNION {[1..n -> PagedFiles] : n \in 1..MaxPagedFiles}
  /\ sessionsResult = <<>>
  /\ projectDirExists = TRUE
  /\ messagesResult = <<>>

NextPaging == \E limit \in 1..2 : \E offset \in 0..1 : OnGetSessions(limit, offset)

SpecPaging == InitPaging /\ [][NextPaging]_vars

(***************************************************************************)
(* getSessionMessages (server/projects.js), and SpecMessages: the sessions *)
(* of a project are listed and the messages of a session are read, the     *)
(* project directory existing or not.                                      *)
(***************************************************************************)
\* the entries of the files, file after file
RECURSIVE AllEntries(_)
AllEntries(files) ==
  IF files = <<>> THEN <<>>
  ELSE AllEntries(SubSeq(files, 1, Len(files) - 1)) \o files[Len(files)].entries

\* a variant that stops at the first file holding the session
getSessionMessagesFirstFile(files, sessionId) ==
  LET Mine(e) == e.sessionId = sessionId
      Holds(f) == Some(f.entries, Mine)
      Earlier(e) == 0 - e.timestamp
      first == Find(files, Holds)
  IN  IF StartsWithTemp(sessionId) \/ first = <<>> THEN <<>>
      ELSE SortDescending(Filter(first[1].entries, Mine), Earlier)

getSessionMessages(files, sessionId) ==
  LET Mine(e) == e.sessionId = sessionId
      Earlier(e) == 0 - e.timestamp
  IN  IF StartsWithTemp(sessionId) THEN <<>>
      ELSE SortDescending(Filter(AllEntries(files), Mine), Earlier)

\* a request for the messages of a session
OnGetSessionMessages(sessionId) ==
  /\ messagesResult = <<>>
  /\ messagesResult' =
       <<[sessionId |-> sessionId, messages |-> getSessionMessages(readdir, sessionId)]>>
  /\ UNCHANGED <<logFiles, projectDirExists, sessionsResult, clientVars,
                 claudeCommand, activeClaudeProcesses, claudeProcesses, wsSent,
                 stdoutVars, pathVars, watcherVars, projectsVars, transcriptVars, truncateVars, snapshotVars, dedupVars, deleteVars>>

InitMessages ==
  /\ InitProgram
  /\ NoDeletion
  /\ NoInbound
  /\ NoSnapshots
  /\ NoTruncation
  /\ NoTranscript
  /\ NoProjects
  /\ NoWatcher
  /\ NoPaths
  /\ NoOutput
  /\ projectDirExists \in BOOLEAN
  /\ IF projectDirExists
     THEN logFiles \in UNION {[1..n -> LogFiles] : n \in 0..MaxFiles}
     ELSE logFiles = <<>>
  /\ sessionsResult = <<>>
  /\ messagesResult = <<>>

NextMessages ==
  \/ OnGetSessions(5, 0)
  \/ \E sessionId \in {Real(1), Real(2), Temp(1)} : OnGetSessionMessages(sessionId)

SpecMessages == InitMessages /\ [][NextMessages]_vars

(***************************************************************************)
(* extractProjectDirectory and smartDecodeProjectName (server/projects.js),*)
(* and SpecPath: the path of one project is asked for, with any            *)
(* configuration entry, directory and log entries.  A path is the sequence *)
(* of its directory names, a directory name the sequence of the name       *)
(* segments and separators it is joined from.                              *)
(***************************************************************************)
MaxCwdEntries == 5

SingleLetters == {"d"}
CapitalizedWords == {"Projects", "Jetset", "Health"}
LowercaseWords == {"home", "my", "app"}

IsCapitalized(segment) == segment \in CapitalizedWords
IsLowercase(segment) == segment \in LowercaseWords

\* the length of the longest prefix whose elements pass the test
RunLength(s, T(_)) ==
  IF \A i \in DOMAIN s : T(s[i]) THEN Len(s)
  ELSE (CHOOSE i \in DOMAIN s : ~T(s[i]) /\ \A j \in 1..(i - 1) : T(s[j])) - 1

\* Array.prototype.join
RECURSIVE Join(_, _)
Join(group, separator) ==
  IF Len(group) <= 1 THEN group
  ELSE <<Head(group), separator>> \o Join(Tail(group), separator)

RECURSIVE smartDecodeSegments(_)
smartDecodeSegments(segments) ==
  IF segments = <<>> THEN <<>>
  ELSE
    LET segment == Head(segments)
        rest(n) == SubSeq(segments, n + 1, Len(segments))
    IN  IF segment \in SingleLetters
        THEN <<<<segment>>>> \o smartDecodeSegments(rest(1))
        ELSE IF IsCapitalized(segment)
        THEN LET n == RunLength(segments, IsCapitalized)
             IN  IF n = 1
                 THEN <<<<segment>>>> \o smartDecodeSegments(rest(1))
                 ELSE [j \in 1..(n - 2) |-> <<segments[j]>>]
                      \o <<<<segments[n - 1], " ", segments[n]>>>>
                      \o smartDecodeSegments(rest(n))
        ELSE LET n == 1 + RunLength(rest(1), IsLowercase)
             IN  <<Join(SubSeq(segments, 1, n), "-")>> \o smartDecodeSegments(rest(n))

smartDecodeProjectName(name) == smartDecodeSegments(name.segments)

\* a log entry as extractProjectDirectory reads it; cwd is optional
CwdEntry(cwd, timestamp) == [cwd |-> cwd, timestamp |-> timestamp]

\* the entries with a cwd, file after file
RECURSIVE CwdEntries(_)
CwdEntries(files) ==
  LET HasCwd(e) == e.cwd # <<>>
  IN  IF files = <<>> THEN <<>>
      ELSE CwdEntries(SubSeq(files, 1, Len(files) - 1))
           \o Filter(files[Len(files)], HasCwd)

\* cwdCounts.get(cwd) || 0
cwdCount(entries, cwd) == Cardinality({i \in DOMAIN entries : entries[i].cwd = <<cwd>>})

\* the cwd of the first entry with the greatest timestamp above 0 (optional)
latestCwd(entries) ==
  LET Latest(i) == /\ entries[i].timestamp > 0
                   /\ \A j \in DOMAIN entries :
                        \/ entries[j].timestamp < entries[i].timestamp
                        \/ entries[j].timestamp = entries[i].timestamp /\ i <= j
  IN  IF \E i \in DOMAIN entries : Latest(i)
      THEN entries[CHOOSE i \in DOMAIN entries : Latest(i)].cwd
      ELSE <<>>

\* Math.max(...cwdCounts.values())
maxCount(entries) ==
  CHOOSE n \in 0..Len(entries) :
    /\ \E i \in DOMAIN entries : cwdCount(entries, entries[i].cwd[1]) = n
    /\ \A i \in DOMAIN entries : cwdCount(entries, entries[i].cwd[1]) <= n

\* the first cwd, in the order the cwds were first counted, with the count
firstWithCount(entries, count) ==
  entries[CHOOSE i \in DOMAIN entries :
            /\ cwdCount(entries, entries[i].cwd[1]) = count
            /\ \A j \in 1..(i - 1) : cwdCount(entries, entries[j].cwd[1]) # count].cwd[1]

\* the cwd chosen among the observed ones (at least one is observed)
bestCwd(entries) ==
  LET latest == latestCwd(entries)
      mostRecentCount == IF latest = <<>> THEN 0 ELSE cwdCount(entries, latest[1])
  IN  IF Cardinality({entries[i].cwd : i \in DOMAIN entries}) = 1
      THEN entries[1].cwd[1]
      ELSE IF 4 * mostRecentCount >= maxCount(entries)
      THEN latest[1]
      ELSE firstWithCount(entries, maxCount(entries))

\* extractProjectDirectory past its cache lookup
resolveProjectDirectory(name, config, dirExists, files) ==
  IF name \in DOMAIN config /\ config[name].originalPath # <<>>
  THEN config[name].originalPath[1]
  ELSE IF ~dirExists \/ files = <<>> \/ CwdEntries(files) = <<>>
  THEN smartDecodeProjectName(name)
  ELSE bestCwd(CwdEntries(files))

extractProjectDirectory(name, cache, config, dirExists, files) ==
  IF name \in DOMAIN cache THEN cache[name]
  ELSE resolveProjectDirectory(name, config, dirExists, files)

OnExtractProjectDirectory ==
  LET path == extractProjectDirectory(pathProject, projectDirectoryCache,
                                      projectConfig, projectDirExists, cwdFiles)
  IN  /\ extractedPath' = <<path>>
      /\ projectDirectoryCache' = MapSet(projectDirectoryCache, pathProject, path)
      /\ UNCHANGED <<pathProject, projectConfig, cwdFiles, clientVars,
                     claudeCommand, activeClaudeProcesses, claudeProcesses,
                     wsSent, stdoutVars, readerVars, watcherVars, projectsVars, transcriptVars, truncateVars, snapshotVars, dedupVars, deleteVars>>

clearProjectDirectoryCache ==
  /\ projectDirectoryCache' = <<>>
  /\ UNCHANGED <<pathProject, projectConfig, cwdFiles, extractedPath, clientVars,
                 claudeCommand, activeClaudeProcesses, claudeProcesses, wsSent,
                 stdoutVars, readerVars, watcherVars, projectsVars, transcriptVars, truncateVars, snapshotVars, dedupVars, deleteVars>>

\* the paths of the working directories and of the configuration
Path(name) == <<<<name>>>>

CwdLogs ==
  UNION {[1..n -> {CwdEntry(cwd, t) : cwd \in {<<>>, <<Path("a")>>, <<Path("b")>>},
                                      t \in 1..2}] : n \in 0..MaxCwdEntries}

ProjectNames ==
  {ProjectName(TRUE, <<"d", "Projects", "Jetset", "Health">>),
   ProjectName(TRUE, <<"home", "my", "app">>)}

InitPath ==
  /\ InitProgram
  /\ NoDeletion
  /\ NoInbound
  /\ NoSnapshots
  /\ NoTruncation
  /\ NoTranscript
  /\ NoProjects
  /\ NoWatcher
  /\ NoOutput
  /\ logFiles = <<>>
  /\ sessionsResult = <<>>
  /\ messagesResult = <<>>
  /\ pathProject \in ProjectNames
  /\ projectConfig \in
       {<<>>} \cup {[n \in {pathProject} |->
                       [manuallyAdded |-> o # <<>>, originalPath |-> o]] :
                      o \in {<<>>, <<Path("configured")>>}}
  /\ projectDirExists \in BOOLEAN
  /\ IF projectDirExists
     THEN cwdFiles \in {<<>>} \cup {<<log>> : log \in CwdLogs}
     ELSE cwdFiles = <<>>
  /\ projectDirectoryCache = <<>>
  /\ extractedPath = <<>>

NextPath ==
  \/ OnExtractProjectDirectory
  \/ clearProjectDirectoryCache

SpecPath == InitPath /\ [][NextPath]_vars

(***************************************************************************)
(* setupProjectsWatcher (server/index.js), and SpecWatcher: filesystem     *)
(* events reach debouncedUpdate at any distance from each other; a timeout *)
(* runs when its delay has passed, and the snapshot is pushed when its     *)
(* getProjects has returned.  One client is connected.                     *)
(***************************************************************************)
MaxFsEvents == 3

ChangeTypes == {"add", "change"}

Timeout(eventType, filePath, remaining) ==
  [eventType |-> eventType, filePath |-> filePath, remaining |-> remaining]

\* a variant that leaves the earlier timeout scheduled
debouncedUpdateKeepsTimer(timers, eventType, filePath) ==
  Append(timers, Timeout(eventType, filePath, debounceDelay))

\* clearTimeout(debounceTimer); debounceTimer = setTimeout(..., 150)
debouncedUpdate(timers, eventType, filePath) ==
  <<Timeout(eventType, filePath, debounceDelay)>>

FsEvents == {i \in DOMAIN watcherLog : watcherLog[i].kind = "event"}
Pushes == {i \in DOMAIN watcherLog : watcherLog[i].kind = "push"}

\* chokidar emits 'add', 'change', ... for a file
OnFsEvent(eventType) ==
  LET filePath == Cardinality(FsEvents) + 1
  IN  /\ Cardinality(FsEvents) < MaxFsEvents
      /\ debounceTimers' = debouncedUpdate(debounceTimers, eventType, filePath)
      /\ sinceEvent' = 0
      /\ watcherLog' = Append(watcherLog,
                              [kind |-> "event", type |-> eventType,
                               file |-> filePath, gap |-> sinceEvent])
      /\ UNCHANGED <<pendingUpdates, clientVars, claudeCommand,
                     activeClaudeProcesses, claudeProcesses, wsSent, stdoutVars,
                     readerVars, pathVars, projectsVars, transcriptVars, truncateVars, snapshotVars, dedupVars, deleteVars>>

Expired(timer) == timer.remaining <= 0

\* time passes, up to the next expiry; an expired timeout runs first
Tick ==
  LET waits == {debounceTimers[i].remaining : i \in DOMAIN debounceTimers}
      step == CHOOSE d \in (waits \cup {ClockStep}) :
                \A e \in (waits \cup {ClockStep}) : d <= e
      Later(timer) == [timer EXCEPT !.remaining = @ - step]
  IN  /\ ~Some(debounceTimers, Expired)
      /\ sinceEvent < Idle
      /\ sinceEvent' = Min(Idle, sinceEvent + step)
      /\ debounceTimers' = MapSeq(debounceTimers, Later)
      /\ UNCHANGED <<pendingUpdates, watcherLog, clientVars, claudeCommand,
                     activeClaudeProcesses, claudeProcesses, wsSent, stdoutVars,
                     readerVars, pathVars, projectsVars, transcriptVars, truncateVars, snapshotVars, dedupVars, deleteVars>>

\* the timeout callback up to its await: the cache is cleared, getProjects starts
OnDebounceTimeout(i) ==
  /\ i \in DOMAIN debounceTimers
  /\ Expired(debounceTimers[i])
  /\ debounceTimers' = [k \in 1..(Len(debounceTimers) - 1) |->
                          debounceTimers[IF k < i THEN k ELSE k + 1]]
  /\ pendingUpdates' =
       Append(pendingUpdates,
              [changeType |-> debounceTimers[i].eventType,
               changedFile |-> debounceTimers[i].filePath])
  /\ projectDirectoryCache' = <<>>
  /\ UNCHANGED <<sinceEvent, watcherLog, pathProject, projectConfig, cwdFiles,
                 extractedPath, clientVars, claudeCommand, activeClaudeProcesses,
                 claudeProcesses, wsSent, stdoutVars, readerVars, projectsVars, transcriptVars, truncateVars, snapshotVars, dedupVars, deleteVars>>

\* getProjects has returned: 'projects_updated' goes to the connected clients
OnProjectsRead(i) ==
  /\ i \in DOMAIN pendingUpdates
  /\ pendingUpdates' = [k \in 1..(Len(pendingUpdates) - 1) |->
                          pendingUpdates[IF k < i THEN k ELSE k + 1]]
  /\ watcherLog' = Append(watcherLog,
                          [kind |-> "push", type |-> pendingUpdates[i].changeType,
                           file |-> pendingUpdates[i].changedFile, gap |-> 0])
  /\ UNCHANGED <<debounceTimers, sinceEvent, clientVars, claudeCommand,
                 activeClaudeProcesses, claudeProcesses, wsSent, stdoutVars,
                 readerVars, pathVars, projectsVars, transcriptVars, truncateVars, snapshotVars, dedupVars, deleteVars>>

InitWatcher ==
  /\ InitProgram
  /\ NoDeletion
  /\ NoInbound
  /\ NoSnapshots
  /\ NoTruncation
  /\ NoTranscript
  /\ NoProjects
  /\ NoOutput
  /\ NoLogs
  /\ NoPaths
  /\ NoWatcher

NextWatcher ==
  \/ \E eventType \in ChangeTypes : OnFsEvent(eventType)
  \/ Tick
  \/ \E i \in 1..MaxFsEvents : OnDebounceTimeout(i)
  \/ \E i \in 1..MaxFsEvents : OnProjectsRead(i)

SpecWatcher == InitWatcher /\ [][NextWatcher]_vars

\* time passes, due timeouts run and getProjects returns
SpecWatcherLive ==
  /\ SpecWatcher
  /\ WF_vars(Tick)
  /\ \A i \in 1..MaxFsEvents : WF_vars(OnDebounceTimeout(i))
  /\ \A i \in 1..MaxFsEvents : WF_vars(OnProjectsRead(i))

(***************************************************************************)
(* getProjects and cleanupEmptyProjectDirectories (server/projects.js),    *)
(* and SpecProjects: the project list is asked for, with any directories   *)
(* and any configuration.                                                  *)
(***************************************************************************)
ProjectDir(name, files) == [name |-> name, files |-> files]

\* a log entry of a project directory, with its cwd (optional)
DirEntry(sessionId, timestamp, cwd) ==
  [sessionId |-> sessionId, timestamp |-> timestamp, cwd |-> cwd]

ConfigEntry(manuallyAdded, originalPath) ==
  [manuallyAdded |-> manuallyAdded, originalPath |-> originalPath]

DirNames(dirs) == {dirs[i].name : i \in DOMAIN dirs}

\* the .jsonl files of the project's directory; none without a directory
FilesOf(dirs, name) ==
  LET Named(d) == d.name = name
      dir == Find(dirs, Named)
  IN  IF dir = <<>> THEN <<>> ELSE dir[1].files

\* the lines of the files, as extractProjectDirectory reads them
LinesOf(files) ==
  LET Entries(f) == f.entries
  IN  MapSeq(files, Entries)

\* getSessions(projectName), with its default limit and offset, for every
\* project name
sessionsOf(dirs, names) == [name \in names |-> getSessions(FilesOf(dirs, name), 5, 0)]

IsManuallyAdded(config, name) == name \in DOMAIN config /\ config[name].manuallyAdded

Project(name, fullPath, isManuallyAdded) ==
  [name |-> name, path |-> fullPath, fullPath |-> fullPath,
   isManuallyAdded |-> isManuallyAdded, sessions |-> <<>>, sessionMeta |-> <<>>]

WithSessions(project, sessions, total) ==
  [project EXCEPT !.sessions = sessions,
                  !.sessionMeta = <<[hasMore |-> FALSE, total |-> total]>>]

\* allSessions.filter(index === findIndex(same id))
uniqueSessions(allSessions) ==
  LET idx == {i \in DOMAIN allSessions :
                \A j \in 1..(i - 1) : allSessions[j].id # allSessions[i].id}
      nth(k) == CHOOSE i \in idx : Cardinality({j \in idx : j < i}) = k - 1
  IN  [k \in 1..Cardinality(idx) |-> allSessions[nth(k)]]

\* the project is listed, unless duplicateDetection has its fullPath
addProject(st, project, sessions) ==
  LET fullPath == project.fullPath
      mine == sessions[project.name]
  IN  IF fullPath \notin DOMAIN st.duplicateDetection
      THEN [st EXCEPT
              !.duplicateDetection = MapSet(@, fullPath, project.name),
              !.projects = Append(@, WithSessions(project, mine.sessions, mine.total))]
      ELSE
        LET existingName == st.duplicateDetection[fullPath]
            IsExisting(p) == p.name = existingName
            NotExisting(p) == p.name # existingName
            existingProject == Find(st.projects, IsExisting)[1]
        IN  IF project.isManuallyAdded /\ ~existingProject.isManuallyAdded
            THEN LET merged == uniqueSessions(sessions[existingName].sessions
                                              \o mine.sessions)
                 IN  [st EXCEPT
                        !.duplicateDetection = MapSet(@, fullPath, project.name),
                        !.projects = Append(Filter(@, NotExisting),
                                            WithSessions(project, merged, Len(merged)))]
            ELSE IF ~project.isManuallyAdded /\ existingProject.isManuallyAdded
            THEN st
            ELSE LET merged == uniqueSessions(existingProject.sessions \o mine.sessions)
                     Merge(p) == IF p.name = existingName
                                 THEN WithSessions(p, merged, Len(merged))
                                 ELSE p
                 IN  [st EXCEPT !.projects = MapSeq(@, Merge)]

\* the first loop of getProjects, over the first n directories
RECURSIVE discoverProjects(_, _, _, _, _)
discoverProjects(dirs, n, config, cache, sessions) ==
  IF n = 0
  THEN [projects |-> <<>>, duplicateDetection |-> <<>>, cache |-> cache]
  ELSE
    LET st == discoverProjects(dirs, n - 1, config, cache, sessions)
        entry == dirs[n]
        actualProjectDir ==
          extractProjectDirectory(entry.name, st.cache, config, TRUE,
                                  LinesOf(entry.files))
        project == Project(entry.name, actualProjectDir,
                           IsManuallyAdded(config, entry.name))
    IN  [addProject(st, project, sessions) EXCEPT
           !.cache = MapSet(st.cache, entry.name, actualProjectDir)]

\* a directory without a log line
isEmpty(dir) == \A i \in DOMAIN dir.files : dir.files[i].entries = <<>>

\* a variant that also removes the empty directory of a registered project
cleanupEmptyProjectDirectoriesAll(dirs, config) ==
  LET Stays(dir) == ~(isEmpty(dir) /\ dir.name.leadingHyphen)
  IN  Filter(dirs, Stays)

\* the directories left
cleanupEmptyProjectDirectories(dirs, config) ==
  LET Stays(dir) == ~(/\ isEmpty(dir)
                      /\ dir.name.leadingHyphen
                      /\ ~IsManuallyAdded(config, dir.name))
  IN  Filter(dirs, Stays)

\* the second loop, over the first n configuration entries: the manually
\* added projects without a directory
RECURSIVE addConfigured(_, _, _, _, _, _)
addConfigured(st0, order, n, config, dirs, sessions) ==
  IF n = 0 THEN st0
  ELSE
    LET st == addConfigured(st0, order, n - 1, config, dirs, sessions)
        name == order[n]
        extracted == extractProjectDirectory(name, st.cache, config, FALSE, <<>>)
        actualProjectDir == IF config[name].originalPath # <<>>
                            THEN config[name].originalPath[1]
                            ELSE extracted
    IN  IF name \in DirNames(dirs) \/ ~config[name].manuallyAdded THEN st
        ELSE [addProject(st, Project(name, actualProjectDir, TRUE), sessions) EXCEPT
                !.cache = IF config[name].originalPath # <<>> THEN st.cache
                          ELSE MapSet(st.cache, name, extracted)]

\* the final safeguard, over the first n configuration entries
RECURSIVE addMissing(_, _, _, _)
addMissing(list, order, n, config) ==
  IF n = 0 THEN list
  ELSE
    LET before == addMissing(list, order, n - 1, config)
        name == order[n]
        Named(p) == p.name = name
        actualProjectDir == IF config[name].originalPath # <<>>
                            THEN config[name].originalPath[1]
                            ELSE smartDecodeProjectName(name)
    IN  IF config[name].manuallyAdded /\ ~Some(before, Named)
        THEN Append(before, WithSessions(Project(name, actualProjectDir, TRUE), <<>>, 0))
        ELSE before

\* the list, the directories left and the path cache after the call
listProjects(dirs, left, order, config, cache, sessions, sessionsLeft) ==
  LET found == discoverProjects(dirs, Len(dirs), config, cache, sessions)
      st == addConfigured(found, order, Len(order), config, dirs, sessionsLeft)
  IN  [projects |-> addMissing(st.projects, order, Len(order), config),
       dirs |-> left,
       cache |-> st.cache]

getProjects(dirs, order, config, cache) ==
  listProjects(dirs, cleanupEmptyProjectDirectories(dirs, config), order, config, cache,
               sessionsOf(dirs, DirNames(dirs) \cup Range(order)),
               sessionsOf(cleanupEmptyProjectDirectories(dirs, config),
                          DirNames(dirs) \cup Range(order)))

OnGetProjects ==
  LET r == getProjects(claudeProjectDirs, configOrder, projectConfig,
                       projectDirectoryCache)
  IN  /\ projectsResult' = <<r.projects>>
      /\ claudeProjectDirs' = r.dirs
      /\ projectDirectoryCache' = r.cache
      /\ UNCHANGED <<configOrder, deleteResult, projectConfig, pathProject, cwdFiles,
                     extractedPath, clientVars, claudeCommand,
                     activeClaudeProcesses, claudeProcesses, wsSent, stdoutVars,
                     readerVars, watcherVars, transcriptVars, truncateVars, snapshotVars, dedupVars, deleteVars>>

\* the response is sent
OnProjectsSent ==
  /\ projectsResult # <<>>
  /\ projectsResult' = <<>>
  /\ UNCHANGED <<claudeProjectDirs, configOrder, deleteResult, clientVars, claudeCommand,
                 activeClaudeProcesses, claudeProcesses, wsSent, stdoutVars,
                 readerVars, pathVars, watcherVars, transcriptVars, truncateVars, snapshotVars, dedupVars, deleteVars>>

ListedNames ==
  {ProjectName(TRUE, <<"home", "my", "app">>), ProjectName(FALSE, <<"app">>)}

DirContents ==
  {<<>>,
   <<LogFile(1, <<>>)>>,
   <<LogFile(1, <<DirEntry(Real(1), 1, <<Path("a")>>)>>)>>,
   <<LogFile(1, <<DirEntry(Real(2), 2, <<Path("b")>>)>>)>>}

\* the sequences without repetition of the elements of S
Orders(S) ==
  UNION {{s \in [1..Cardinality(T) -> T] : \A i, j \in DOMAIN s : s[i] = s[j] => i = j} :
           T \in SUBSET S}

InitProjects ==
  /\ InitProgram
  /\ NoDeletion
  /\ NoInbound
  /\ NoSnapshots
  /\ NoTruncation
  /\ NoTranscript
  /\ NoOutput
  /\ NoLogs
  /\ NoWatcher
  /\ pathProject = ProjectName(TRUE, <<"home", "my", "app">>)
  /\ cwdFiles = <<>>
  /\ extractedPath = <<>>
  /\ projectDirectoryCache = <<>>
  /\ \E order \in Orders(ListedNames) :
       \E contents \in [Range(order) -> DirContents] :
         claudeProjectDirs = [i \in DOMAIN order |-> ProjectDir(order[i], contents[order[i]])]
  /\ configOrder \in Orders(ListedNames)
  /\ projectConfig \in
       [Range(configOrder) ->
          {ConfigEntry(TRUE, <<path>>) : path \in {Path("a"), Path("b")}}
            \cup {ConfigEntry(FALSE, <<>>)}]
  /\ projectsResult = <<>>
  /\ deleteResult = <<>>

NextProjects ==
  \/ OnGetProjects
  \/ OnProjectsSent

SpecProjects == InitProjects /\ [][NextProjects]_vars

(***************************************************************************)
(* deleteProject and deleteAllSessions (server/projects.js), and           *)
(* SpecDelete: a project is deleted and the project list is asked for.     *)
(* Removing the files or the directory may fail.                           *)
(***************************************************************************)
\* deleteAllSessions: every .jsonl file of the directory is unlinked
deleteAllSessions(dirs, name, unlinkFails) ==
  LET Emptied(dir) == IF dir.name = name /\ ~unlinkFails
                      THEN ProjectDir(name, <<>>)
                      ELSE dir
  IN  MapSeq(dirs, Emptied)

\* fs.rm(projectDir, { recursive: true, force: true })
removeDirectory(dirs, name, rmFails) ==
  LET Stays(dir) == dir.name # name \/ rmFails
  IN  Filter(dirs, Stays)

\* deleteProject up to 'delete config[projectName]': config is declared
\* neither in the function nor in the module, so the statement raises a
\* ReferenceError, which the function rethrows; the configuration is not
\* saved and the final clearProjectDirectoryCache is not reached
OnDeleteProject(name, unlinkFails, rmFails) ==
  /\ deleteResult = <<>>
  /\ claudeProjectDirs' =
       removeDirectory(deleteAllSessions(claudeProjectDirs, name, unlinkFails),
                       name, rmFails)
  /\ projectDirectoryCache' =
       IF FilesOf(claudeProjectDirs, name) # <<>> THEN <<>> ELSE projectDirectoryCache
  /\ deleteResult' = <<[name |-> name, success |-> FALSE, failed |-> unlinkFails \/ rmFails]>>
  /\ projectsResult' = <<>>
  /\ UNCHANGED <<configOrder, projectConfig, pathProject, cwdFiles, extractedPath,
                 clientVars, claudeCommand, activeClaudeProcesses, claudeProcesses,
                 wsSent, stdoutVars, readerVars, watcherVars, transcriptVars, truncateVars, snapshotVars, dedupVars, deleteVars>>

NextDelete ==
  \/ OnGetProjects
  \/ \E name \in ListedNames : \E unlinkFails, rmFails \in BOOLEAN :
       OnDeleteProject(name, unlinkFails, rmFails)

SpecDelete == InitProjects /\ [][NextDelete]_vars

(***************************************************************************)
(* messageConverter.convertFromAPI and the effect that restores the        *)
(* checkpoints of the loaded messages (ChatInterface), with SpecConvert    *)
(* and SpecRestore: the log entries of a session are loaded.  A text is    *)
(* the sequence of its pieces; the piece LongText stands for 50 characters.*)
(***************************************************************************)
MaxApiMessages == 2
MaxParts == 2
MaxCheckpoints == 2
MaxTimeSteps == 2
TimeStep == 2500

\* the tolerance of the checkpoint match, in ms
tolerance == 5000

LongText == "fifty characters"

Part(type, text, id) == [type |-> type, text |-> text, id |-> id]

\* content is a string (text) or an array (parts)
Content(isArray, text, parts) == [isArray |-> isArray, text |-> text, parts |-> parts]

ApiMessage(role, content, timestamp) ==
  [role |-> role, content |-> content, timestamp |-> timestamp]

\* the first pass: the last tool_result of each tool_use_id (optional)
toolResults(messages, id) ==
  LET at == {<<i, k>> \in (DOMAIN messages) \X (1..MaxParts) :
               /\ messages[i].role = "user"
               /\ messages[i].content.isArray
               /\ k \in DOMAIN messages[i].content.parts
               /\ messages[i].content.parts[k].type = "tool_result"
               /\ messages[i].content.parts[k].id = id}
      last == CHOOSE p \in at :
                \A q \in at : q[1] < p[1] \/ (q[1] = p[1] /\ q[2] <= p[2])
  IN  IF at = {} THEN <<>>
      ELSE <<[content |-> messages[last[1]].content.parts[last[2]].text,
              timestamp |-> messages[last[1]].timestamp]>>

\* texts.join('\n')
RECURSIVE JoinLines(_)
JoinLines(texts) ==
  IF texts = <<>> THEN <<>>
  ELSE IF Len(texts) = 1 THEN texts[1]
  ELSE texts[1] \o <<"\n">> \o JoinLines(Tail(texts))

StartsWithCommandName(text) == text # <<>> /\ text[1] = "<command-name>"

ChatEntry(type, content, timestamp, isToolUse, toolId, toolResult) ==
  [type |-> type, content |-> content, timestamp |-> timestamp,
   isToolUse |-> isToolUse, toolId |-> toolId, toolResult |-> toolResult,
   persisted |-> TRUE, isPending |-> FALSE]

\* the entries of a user message: its text blocks joined to one entry
convertUserMessage(msg) ==
  LET IsText(p) == p.type = "text"
      TextOf(p) == p.text
      content == IF msg.content.isArray
                 THEN JoinLines(MapSeq(Filter(msg.content.parts, IsText), TextOf))
                 ELSE msg.content.text
  IN  IF content # <<>> /\ ~StartsWithCommandName(content)
      THEN <<ChatEntry("user", content, msg.timestamp, FALSE, 0, <<>>)>>
      ELSE <<>>

\* the entries of an assistant message: one for each text or tool_use block
convertAssistantMessage(msg, messages) ==
  LET Shown(p) == p.type \in {"text", "tool_use"}
      Entry(p) == IF p.type = "text"
                  THEN ChatEntry("assistant", p.text, msg.timestamp, FALSE, 0, <<>>)
                  ELSE ChatEntry("assistant", <<>>, msg.timestamp, TRUE, p.id,
                                 toolResults(messages, p.id))
  IN  IF msg.content.isArray
      THEN MapSeq(Filter(msg.content.parts, Shown), Entry)
      ELSE <<ChatEntry("assistant", msg.content.text, msg.timestamp, FALSE, 0, <<>>)>>

\* the second pass over the first n messages
RECURSIVE convertMessages(_, _)
convertMessages(messages, n) ==
  IF n = 0 THEN <<>>
  ELSE convertMessages(messages, n - 1)
       \o (IF messages[n].role = "user"
           THEN convertUserMessage(messages[n])
           ELSE convertAssistantMessage(messages[n], messages))

convertFromAPI(messages) == convertMessages(messages, Len(messages))

\* String.prototype.substring(0, 50)
Substring50(text) == IF text # <<>> /\ text[1] = LongText THEN <<LongText>> ELSE text

\* content.replace(/\n$/, '')
cleanContent(text) ==
  IF text # <<>> /\ text[Len(text)] = "\n" THEN SubSeq(text, 1, Len(text) - 1) ELSE text

messageKey(text, timestamp) == <<Substring50(text), timestamp>>

Checkpoint(checkpointId, content, timestamp) ==
  [key |-> messageKey(content, timestamp), checkpointId |-> checkpointId,
   content |-> content, timestamp |-> timestamp]

\* handleSubmit: existingCheckpoints[messageKey] = {...}; a key keeps its place
storeCheckpoint(store, checkpoint) ==
  LET SameKey(cp) == cp.key = checkpoint.key
      Replace(cp) == IF cp.key = checkpoint.key THEN checkpoint ELSE cp
  IN  IF Some(store, SameKey) THEN MapSeq(store, Replace) ELSE Append(store, checkpoint)

Distance(a, b) == IF a < b THEN b - a ELSE a - b

\* the checkpoint of a loaded user message (optional)
findCheckpoint(message, store) ==
  LET clean == cleanContent(message.content)
      Exact(cp) == cp.key = messageKey(clean, message.timestamp)
      Near(cp) == /\ cp.content = clean
                  /\ Distance(cp.timestamp, message.timestamp) < tolerance
      SameContent(cp) == cp.content = clean
  IN  IF Some(store, Exact) THEN Find(store, Exact)
      ELSE IF Some(store, Near) THEN Find(store, Near)
      ELSE Find(store, SameContent)

restoreCheckpoints(messages, store) ==
  LET Restored(message) ==
        IF message.type = "user"
        THEN [message |-> message, checkpoint |-> findCheckpoint(message, store)]
        ELSE [message |-> message, checkpoint |-> <<>>]
  IN  MapSeq(messages, Restored)

\* the effect on sessionMessages: convert, then restore the checkpoints of
\* the selected project
OnSessionMessages ==
  /\ apiMessages # <<>>
  /\ converted = <<>>
  /\ converted' = <<convertFromAPI(apiMessages)>>
  /\ restoredMessages' = <<restoreCheckpoints(convertFromAPI(apiMessages), checkpointStore)>>
  /\ UNCHANGED <<apiMessages, checkpointStore, clientVars, claudeCommand,
                 activeClaudeProcesses, claudeProcesses, wsSent, stdoutVars,
                 readerVars, pathVars, watcherVars, projectsVars, truncateVars, snapshotVars, dedupVars, deleteVars>>

\* another session is selected: its entries are loaded
OnSessionSwitch(messages) ==
  /\ converted # <<>>
  /\ apiMessages' = messages
  /\ converted' = <<>>
  /\ restoredMessages' = <<>>
  /\ UNCHANGED <<checkpointStore, clientVars, claudeCommand,
                 activeClaudeProcesses, claudeProcesses, wsSent, stdoutVars,
                 readerVars, pathVars, watcherVars, projectsVars, truncateVars, snapshotVars, dedupVars, deleteVars>>

Texts28 == {<<"hi">>, <<"<command-name>">>}

\* the blocks of a user message and those of an assistant message
Parts28(role) ==
  {Part("text", t, 0) : t \in Texts28}
    \cup (IF role = "user" THEN {Part("tool_result", <<"ok">>, 1)}
                           ELSE {Part("tool_use", <<>>, 1)})

Contents28(role) ==
  {Content(FALSE, t, <<>>) : t \in Texts28}
    \cup {Content(TRUE, <<>>, parts) :
            parts \in UNION {[1..n -> Parts28(role)] : n \in 1..MaxParts}}

ApiMessages28 ==
  UNION {{ApiMessage(role, content, 0) : content \in Contents28(role)} :
           role \in {"user", "assistant"}}

MessageLists28 == UNION {[1..n -> ApiMessages28] : n \in 1..MaxApiMessages}

InitConvert ==
  /\ InitProgram
  /\ NoDeletion
  /\ NoInbound
  /\ NoSnapshots
  /\ NoTruncation
  /\ NoOutput
  /\ NoLogs
  /\ NoPaths
  /\ NoWatcher
  /\ NoProjects
  /\ apiMessages \in MessageLists28
  /\ checkpointStore = <<>>
  /\ converted = <<>>
  /\ restoredMessages = <<>>

NextConvert ==
  \/ OnSessionMessages
  \/ \E messages \in {<<ApiMessage("user", Content(FALSE, <<"hi">>, <<>>), 0)>>} :
       OnSessionSwitch(messages)

SpecConvert == InitConvert /\ [][NextConvert]_vars

Timestamps == {k * TimeStep : k \in 0..MaxTimeSteps}

Texts29 == {<<"fix bug">>, <<"fix bug", "\n">>, <<LongText, "x">>, <<LongText, "y">>}

\* the stores that handleSubmit can have written, prompt after prompt
RECURSIVE Stores(_)
Stores(n) ==
  IF n = 0 THEN {<<>>}
  ELSE Stores(n - 1)
         \cup {storeCheckpoint(store, Checkpoint(n, text, t)) :
                 store \in Stores(n - 1), text \in Texts29, t \in Timestamps}

InitRestore ==
  /\ InitProgram
  /\ NoDeletion
  /\ NoInbound
  /\ NoSnapshots
  /\ NoTruncation
  /\ NoOutput
  /\ NoLogs
  /\ NoPaths
  /\ NoWatcher
  /\ NoProjects
  /\ apiMessages \in {<<ApiMessage("user", Content(FALSE, text, <<>>), t)>> :
                        text \in Texts29, t \in Timestamps}
  /\ checkpointStore \in Stores(MaxCheckpoints)
  /\ converted = <<>>
  /\ restoredMessages = <<>>

NextRestore ==
  \/ OnSessionMessages
  \/ \E messages \in {<<ApiMessage("user", Content(FALSE, <<"fix bug">>, <<>>), 0)>>} :
       OnSessionSwitch(messages)

SpecRestore == InitRestore /\ [][NextRestore]_vars

(***************************************************************************)
(* truncateSessionMessages (server/projects.js) and its caller, the        *)
(* truncate_messages branch of handleChatConnection, with SpecTruncate:    *)
(* the log files of one project are cut back to a checkpoint while the     *)
(* claude subprocess appends entries to them.  Each await of the function  *)
(* is a step of its own.                                                   *)
(***************************************************************************)
MaxAppends == 2
MaxTarget == 2

\* the positions of the session's entries, those after the first target ones
indicesToRemove(allLines, sessionId, targetMessageCount) ==
  LET Mine(i) == allLines[i].sessionId = sessionId
      sessionLines == {i \in DOMAIN allLines : Mine(i)}
  IN  {i \in sessionLines :
         Cardinality({j \in sessionLines : j < i}) >= targetMessageCount}

\* allLines.filter((_, index) => !indicesToRemove.includes(index)), first n lines
RECURSIVE keepLines(_, _, _)
keepLines(allLines, remove, n) ==
  IF n = 0 THEN <<>>
  ELSE IF n \in remove THEN keepLines(allLines, remove, n - 1)
  ELSE Append(keepLines(allLines, remove, n - 1), allLines[n])

\* the modification time of a file written now
Touch ==
  LET Newer(i) == \A j \in DOMAIN logFiles : logFiles[j].mtime <= logFiles[i].mtime
      tmp == IF tempFile = <<>> THEN 0 ELSE tempFile[1].mtime
      newest == IF logFiles = <<>> THEN 0
                ELSE logFiles[CHOOSE i \in DOMAIN logFiles : Newer(i)].mtime
  IN  1 + (IF tmp > newest THEN tmp ELSE newest)

TruncateReply(success, truncated, files) ==
  [type |-> "messages-truncated", success |-> success,
   truncatedCount |-> truncated, filesModified |-> files]

\* the loop goes on with the next file, or the call returns and is answered
NextFile(t) ==
  IF t.file < Len(logFiles)
  THEN /\ truncation' = [t EXCEPT !.pc = "read", !.file = t.file + 1,
                                  !.allLines = <<>>, !.newLines = <<>>]
       /\ truncateResult' = truncateResult
  ELSE /\ truncation' = NotTruncating
       /\ truncateResult' = <<TruncateReply(TRUE, t.totalTruncated, t.filesModified)>>

\* a truncate_messages request: parameters, fs.access, fs.readdir
OnTruncateMessages(sessionId, messageCount) ==
  /\ truncation.pc = "idle"
  /\ truncateResult = <<>>
  /\ IF messageCount = 0 \/ ~projectDirExists
     THEN /\ truncateResult' = <<TruncateReply(FALSE, 0, 0)>>
          /\ truncation' = truncation
     ELSE IF logFiles = <<>>
     THEN /\ truncateResult' = <<TruncateReply(TRUE, 0, 0)>>
          /\ truncation' = truncation
     ELSE /\ truncateResult' = truncateResult
          /\ truncation' = [NotTruncating EXCEPT !.pc = "read",
                                                 !.sessionId = sessionId,
                                                 !.targetMessageCount = messageCount,
                                                 !.file = 1]
  /\ UNCHANGED <<tempFile, nAppends, clientVars, claudeCommand,
                 activeClaudeProcesses, claudeProcesses, wsSent, stdoutVars,
                 readerVars, pathVars, watcherVars, projectsVars, transcriptVars, snapshotVars, dedupVars, deleteVars>>

\* the lines of the file are read; the file is left alone or its new lines are set
TruncateRead ==
  /\ truncation.pc = "read"
  /\ LET allLines == logFiles[truncation.file].entries
         remove == indicesToRemove(allLines, truncation.sessionId,
                                   truncation.targetMessageCount)
     IN  IF remove # {}
         THEN /\ truncation' = [truncation EXCEPT
                                  !.pc = "write",
                                  !.allLines = allLines,
                                  !.newLines = keepLines(allLines, remove, Len(allLines))]
              /\ truncateResult' = truncateResult
         ELSE NextFile(truncation)
  /\ UNCHANGED <<tempFile, nAppends, clientVars, claudeCommand,
                 activeClaudeProcesses, claudeProcesses, wsSent, stdoutVars,
                 readerVars, pathVars, watcherVars, projectsVars, transcriptVars, snapshotVars, dedupVars, deleteVars>>

\* fs.writeFile(tempFile, newLines)
TruncateWrite ==
  /\ truncation.pc = "write"
  /\ tempFile' = <<LogFile(Touch, truncation.newLines)>>
  /\ truncation' = [truncation EXCEPT !.pc = "rename"]
  /\ UNCHANGED <<truncateResult, nAppends, clientVars, claudeCommand,
                 activeClaudeProcesses, claudeProcesses, wsSent, stdoutVars,
                 readerVars, pathVars, watcherVars, projectsVars, transcriptVars, snapshotVars, dedupVars, deleteVars>>

\* fs.rename(tempFile, jsonlFile), then the counters
TruncateRename ==
  /\ truncation.pc = "rename"
  /\ logFiles' = [logFiles EXCEPT ![truncation.file] = tempFile[1]]
  /\ tempFile' = <<>>
  /\ NextFile([truncation EXCEPT
                 !.totalTruncated = truncation.totalTruncated
                                      + Len(truncation.allLines) - Len(truncation.newLines),
                 !.filesModified = truncation.filesModified + 1])
  /\ UNCHANGED <<sessionsResult, projectDirExists, messagesResult, nAppends,
                 clientVars, claudeCommand, activeClaudeProcesses, claudeProcesses,
                 wsSent, stdoutVars, pathVars, watcherVars, projectsVars,
                 transcriptVars, snapshotVars, dedupVars, deleteVars>>

\* the claude subprocess appends an entry to a log file
SubprocessAppend(file, sessionId) ==
  /\ nAppends < MaxAppends
  /\ file \in DOMAIN logFiles
  /\ logFiles' = [logFiles EXCEPT
                    ![file] = LogFile(Touch,
                                      Append(logFiles[file].entries,
                                             LogEntry(sessionId, MaxEntries + nAppends + 1)))]
  /\ nAppends' = nAppends + 1
  /\ UNCHANGED <<sessionsResult, projectDirExists, messagesResult, truncation,
                 tempFile, truncateResult, clientVars, claudeCommand,
                 activeClaudeProcesses, claudeProcesses, wsSent, stdoutVars,
                 pathVars, watcherVars, projectsVars, transcriptVars, snapshotVars, dedupVars, deleteVars>>

\* the files of a project: entry k of a file was written at time k
TruncateFiles ==
  {LogFile(1, entries) :
     entries \in UNION {[1..n -> {Real(1), Real(2)}] : n \in 0..MaxEntries}}

StampedFile(file) ==
  LogFile(file.mtime, [k \in DOMAIN file.entries |-> LogEntry(file.entries[k], k)])

InitTruncate ==
  /\ InitProgram
  /\ NoDeletion
  /\ NoInbound
  /\ NoSnapshots
  /\ NoOutput
  /\ NoPaths
  /\ NoWatcher
  /\ NoProjects
  /\ NoTranscript
  /\ NoTruncation
  /\ projectDirExists \in BOOLEAN
  /\ IF projectDirExists
     THEN \E files \in UNION {[1..n -> TruncateFiles] : n \in 0..MaxFiles} :
            logFiles = MapSeq(files, StampedFile)
     ELSE logFiles = <<>>
  /\ sessionsResult = <<>>
  /\ messagesResult = <<>>

NextTruncate ==
  \/ \E sessionId \in {Real(1), Real(2)}, messageCount \in 0..MaxTarget :
       OnTruncateMessages(sessionId, messageCount)
  \/ TruncateRead
  \/ TruncateWrite
  \/ TruncateRename
  \/ \E file \in 1..MaxFiles, sessionId \in {Real(1), Real(2)} :
       SubprocessAppend(file, sessionId)

SpecTruncate == InitTruncate /\ [][NextTruncate]_vars

(***************************************************************************)
(* The snapshot pushes step by step, with SpecSnapshots: the subprocess    *)
(* appends entries to the log of one project; the debounced update of the  *)
(* watcher (server/index.js) and the immediate update after                *)
(* 'session-created' (spawnClaude) each call getProjects, whose awaits     *)
(* (the cache lookup and the reads of extractProjectDirectory, the read of *)
(* getSessions) are steps of their own, and push what it returned.  The    *)
(* debounce delay is a timeout that runs at some later time.               *)
(***************************************************************************)
MaxChanges == 2
MaxRuns == 2

SnapshotRun(kind, trigger, pc, path, entries) ==
  [kind |-> kind, trigger |-> trigger, pc |-> pc, path |-> path, entries |-> entries]

WithoutRun(runs, i) ==
  [k \in 1..(Len(runs) - 1) |-> runs[IF k < i THEN k ELSE k + 1]]

\* the subprocess appends an entry with its cwd; chokidar reports the change
LogChange(cwd) ==
  LET entries == Len(cwdFiles[1]) + 1
  IN  /\ entries <= MaxChanges + 1
      /\ cwdFiles' = <<Append(cwdFiles[1], CwdEntry(<<Path(cwd)>>, entries))>>
      /\ debounceTimers' = debouncedUpdate(debounceTimers, "change", entries)
      /\ UNCHANGED <<pathProject, projectConfig, projectDirectoryCache, extractedPath,
                     sinceEvent, pendingUpdates, watcherLog, snapshotVars, clientVars,
                     claudeCommand, activeClaudeProcesses, claudeProcesses, wsSent,
                     stdoutVars, readerVars, projectsVars, transcriptVars,
                     truncateVars, dedupVars, deleteVars>>

\* the timeout of debouncedUpdate up to its await: the cache is cleared,
\* getProjects is called
SnapshotTimeout ==
  /\ debounceTimers # <<>>
  /\ Len(snapshotRuns) < MaxRuns
  /\ debounceTimers' = <<>>
  /\ projectDirectoryCache' = <<>>
  /\ snapshotRuns' = Append(snapshotRuns,
                            SnapshotRun("change", debounceTimers[1].filePath,
                                        "lookup", <<>>, 0))
  /\ UNCHANGED <<pathProject, projectConfig, cwdFiles, extractedPath, sinceEvent,
                 pendingUpdates, watcherLog, snapshotsSent, clientVars,
                 claudeCommand, activeClaudeProcesses, claudeProcesses, wsSent,
                 stdoutVars, readerVars, projectsVars, transcriptVars, truncateVars, dedupVars, deleteVars>>

\* the timeout set after 'session-created': getProjects is called
ImmediateUpdate ==
  /\ Len(snapshotRuns) < MaxRuns
  /\ Len(snapshotsSent) < MaxRuns
  /\ snapshotRuns' = Append(snapshotRuns,
                            SnapshotRun("session-created", 0, "lookup", <<>>, 0))
  /\ UNCHANGED <<snapshotsSent, clientVars, claudeCommand, activeClaudeProcesses,
                 claudeProcesses, wsSent, stdoutVars, readerVars, pathVars,
                 watcherVars, projectsVars, transcriptVars, truncateVars, dedupVars, deleteVars>>

\* extractProjectDirectory: the cache lookup
ExtractLookup(i) ==
  /\ i \in DOMAIN snapshotRuns
  /\ snapshotRuns[i].pc = "lookup"
  /\ snapshotRuns' =
       [snapshotRuns EXCEPT
          ![i] = IF pathProject \in DOMAIN projectDirectoryCache
                 THEN [@ EXCEPT !.pc = "sessions",
                                !.path = <<projectDirectoryCache[pathProject]>>]
                 ELSE [@ EXCEPT !.pc = "resolve"]]
  /\ UNCHANGED <<snapshotsSent, clientVars, claudeCommand, activeClaudeProcesses,
                 claudeProcesses, wsSent, stdoutVars, readerVars, pathVars,
                 watcherVars, projectsVars, transcriptVars, truncateVars, dedupVars, deleteVars>>

\* extractProjectDirectory: the configuration and the log files are read
ExtractResolve(i) ==
  /\ i \in DOMAIN snapshotRuns
  /\ snapshotRuns[i].pc = "resolve"
  /\ snapshotRuns' =
       [snapshotRuns EXCEPT
          ![i] = [@ EXCEPT !.pc = "store",
                           !.path = <<resolveProjectDirectory(pathProject, projectConfig,
                                                              TRUE, cwdFiles)>>]]
  /\ UNCHANGED <<snapshotsSent, clientVars, claudeCommand, activeClaudeProcesses,
                 claudeProcesses, wsSent, stdoutVars, readerVars, pathVars,
                 watcherVars, projectsVars, transcriptVars, truncateVars, dedupVars, deleteVars>>

\* extractProjectDirectory: the last lines have come, the path is cached
ExtractStore(i) ==
  /\ i \in DOMAIN snapshotRuns
  /\ snapshotRuns[i].pc = "store"
  /\ projectDirectoryCache' =
       MapSet(projectDirectoryCache, pathProject, snapshotRuns[i].path[1])
  /\ snapshotRuns' = [snapshotRuns EXCEPT ![i] = [@ EXCEPT !.pc = "sessions"]]
  /\ UNCHANGED <<pathProject, projectConfig, cwdFiles, extractedPath, watcherVars,
                 snapshotsSent, clientVars, claudeCommand, activeClaudeProcesses,
                 claudeProcesses, wsSent, stdoutVars, readerVars, projectsVars,
                 transcriptVars, truncateVars, dedupVars, deleteVars>>

\* getSessions reads the log: the snapshot describes the entries it finds
ReadSessions(i) ==
  /\ i \in DOMAIN snapshotRuns
  /\ snapshotRuns[i].pc = "sessions"
  /\ snapshotRuns' = [snapshotRuns EXCEPT
                        ![i] = [@ EXCEPT !.pc = "send", !.entries = Len(cwdFiles[1])]]
  /\ UNCHANGED <<snapshotsSent, clientVars, claudeCommand, activeClaudeProcesses,
                 claudeProcesses, wsSent, stdoutVars, readerVars, pathVars,
                 watcherVars, projectsVars, transcriptVars, truncateVars, dedupVars, deleteVars>>

\* getProjects has returned: 'projects_updated' is sent
SnapshotSend(i) ==
  /\ i \in DOMAIN snapshotRuns
  /\ snapshotRuns[i].pc = "send"
  /\ snapshotsSent' = Append(snapshotsSent,
                             [changeType |-> snapshotRuns[i].kind,
                              trigger |-> snapshotRuns[i].trigger,
                              path |-> snapshotRuns[i].path[1],
                              entries |-> snapshotRuns[i].entries])
  /\ snapshotRuns' = WithoutRun(snapshotRuns, i)
  /\ UNCHANGED <<clientVars, claudeCommand, activeClaudeProcesses,
                 claudeProcesses, wsSent, stdoutVars, readerVars, pathVars,
                 watcherVars, projectsVars, transcriptVars, truncateVars, dedupVars, deleteVars>>

\* one project whose log has one entry, written in /a
InitSnapshots ==
  /\ InitProgram
  /\ NoDeletion
  /\ NoInbound
  /\ NoOutput
  /\ NoLogs
  /\ NoWatcher
  /\ NoProjects
  /\ NoTranscript
  /\ NoTruncation
  /\ NoSnapshots
  /\ pathProject = ProjectName(TRUE, <<"home", "my", "app">>)
  /\ projectConfig = <<>>
  /\ cwdFiles = <<<<CwdEntry(<<Path("a")>>, 1)>>>>
  /\ projectDirectoryCache \in {<<>>, MapSet(<<>>, pathProject, Path("a"))}
  /\ extractedPath = <<>>

NextSnapshots ==
  \/ \E cwd \in {"a", "b"} : LogChange(cwd)
  \/ SnapshotTimeout
  \/ ImmediateUpdate
  \/ \E i \in 1..MaxRuns : ExtractLookup(i)
  \/ \E i \in 1..MaxRuns : ExtractResolve(i)
  \/ \E i \in 1..MaxRuns : ExtractStore(i)
  \/ \E i \in 1..MaxRuns : ReadSessions(i)
  \/ \E i \in 1..MaxRuns : SnapshotSend(i)

SpecSnapshots == InitSnapshots /\ [][NextSnapshots]_vars

(***************************************************************************)
(* The processed-message cache of App (App.jsx), with SpecInbound: the     *)
(* WebSocket delivers 'projects_updated' messages, some of them once more, *)
(* and the cleanup interval trims the cache at any time.                   *)
(***************************************************************************)
MaxMessages == 101
MaxAgain == 2
MaxRepeated == 2

\* the cleanup keeps the last keptIds identities once there are over cacheLimit
cacheLimit == 100
keptIds == 50

\* an inbound message; head is what of its JSON text lies in the first 100
\* characters, rest what lies beyond
WsMessage(type, timestamp, head, rest) ==
  [type |-> type, timestamp |-> timestamp, head |-> head, rest |-> rest]

\* `${type}-${timestamp || Date.now()}-${JSON.stringify(latestMessage).slice(0, 100)}`
messageId(message) == <<message.type, message.timestamp, message.head>>

\* the k-th snapshot the server pushes
Pushed(k) == WsMessage("projects_updated", k, "demo", k)

\* new Set([...prev, messageId])
AddId(ids, id) ==
  IF \E i \in DOMAIN ids : ids[i] = id THEN ids ELSE Append(ids, id)

\* the App effect on messages: skip a processed message, else mark and apply it
OnInboundMessage(message) ==
  /\ IF \E i \in DOMAIN processedMessageIds : processedMessageIds[i] = messageId(message)
     THEN UNCHANGED <<processedMessageIds, appliedMessages>>
     ELSE /\ processedMessageIds' = AddId(processedMessageIds, messageId(message))
          /\ appliedMessages' = appliedMessages (+) SetToBag({message})
  /\ UNCHANGED <<clientVars, claudeCommand, activeClaudeProcesses, claudeProcesses,
                 wsSent, stdoutVars, readerVars, pathVars, watcherVars, projectsVars,
                 transcriptVars, truncateVars, snapshotVars, deleteVars>>

\* a message arrives for the first time
DeliverFresh ==
  /\ nFresh < MaxMessages
  /\ nFresh' = nFresh + 1
  /\ nAgain' = nAgain
  /\ OnInboundMessage(Pushed(nFresh + 1))

\* a message that has arrived before arrives once more
DeliverAgain(k) ==
  /\ nAgain < MaxAgain
  /\ k <= nFresh
  /\ nAgain' = nAgain + 1
  /\ nFresh' = nFresh
  /\ OnInboundMessage(Pushed(k))

\* the interval callback: keep the last 50 identities once there are over 100
cleanup(ids) ==
  IF Len(ids) > cacheLimit THEN SubSeq(ids, Len(ids) - keptIds + 1, Len(ids)) ELSE ids

OnCleanupInterval ==
  /\ processedMessageIds' = cleanup(processedMessageIds)
  /\ UNCHANGED <<appliedMessages, nFresh, nAgain, clientVars, claudeCommand,
                 activeClaudeProcesses, claudeProcesses, wsSent, stdoutVars,
                 readerVars, pathVars, watcherVars, projectsVars, transcriptVars,
                 truncateVars, snapshotVars, deleteVars>>

InitInbound ==
  /\ InitProgram
  /\ NoDeletion
  /\ NoOutput
  /\ NoLogs
  /\ NoPaths
  /\ NoWatcher
  /\ NoProjects
  /\ NoTranscript
  /\ NoTruncation
  /\ NoSnapshots
  /\ NoInbound

NextInbound ==
  \/ DeliverFresh
  \/ \E k \in 1..MaxRepeated : DeliverAgain(k)
  \/ OnCleanupInterval

SpecInbound == InitInbound /\ [][NextInbound]_vars

(***************************************************************************)
(* deleteSession (projects.js).  The call reads the .jsonl files of the    *)
(* project directory in readdir order; the first file that holds an entry  *)
(* of the session is rewritten without the session's entries and the call  *)
(* returns true.  A call that finds no such file throws.                   *)
(***************************************************************************)
MaxDeleted == 2

DeleteReturn == [success |-> TRUE, error |-> ""]
DeleteThrow(message) == [success |-> FALSE, error |-> message]

\* lines.filter(line => data.sessionId !== sessionId)
filteredLines(lines, sessionId) ==
  LET Other(e) == e.sessionId # sessionId IN Filter(lines, Other)

\* lines.some(line => data.sessionId === sessionId)
hasSession(lines, sessionId) ==
  LET Same(e) == e.sessionId = sessionId IN Some(lines, Same)

deleteSession(sessionId) ==
  /\ nDeleted < MaxDeleted
  /\ nDeleted' = nDeleted + 1
  /\ IF sessionId[2] = "temp-"
     THEN /\ deleteSessionResult' = <<DeleteReturn>>
          /\ logFiles' = logFiles
     ELSE IF ~projectDirExists
     THEN /\ deleteSessionResult' = <<DeleteThrow("project directory does not exist")>>
          /\ logFiles' = logFiles
     ELSE IF logFiles = <<>>
     THEN /\ deleteSessionResult' = <<DeleteThrow("no session files exist")>>
          /\ logFiles' = logFiles
     ELSE LET With(file) == hasSession(file.entries, sessionId)
              holding == Indices(logFiles, With)
          IN  IF holding = {}
              THEN /\ deleteSessionResult' = <<DeleteThrow("not found in any files")>>
                   /\ logFiles' = logFiles
              ELSE LET file == CHOOSE i \in holding : \A j \in holding : i <= j
                   IN  /\ logFiles' = [logFiles EXCEPT
                                         ![file] = LogFile(Touch,
                                                           filteredLines(logFiles[file].entries,
                                                                         sessionId))]
                       /\ deleteSessionResult' = <<DeleteReturn>>
  /\ UNCHANGED <<sessionsResult, projectDirExists, messagesResult, clientVars,
                 claudeCommand, activeClaudeProcesses, claudeProcesses, wsSent,
                 stdoutVars, pathVars, watcherVars, projectsVars, transcriptVars,
                 truncateVars, snapshotVars, dedupVars>>

DeletableIds == {Real(1), Real(2), Temp(1)}

InitDeleteSession ==
  /\ InitProgram
  /\ NoDeletion
  /\ NoInbound
  /\ NoSnapshots
  /\ NoOutput
  /\ NoPaths
  /\ NoWatcher
  /\ NoProjects
  /\ NoTranscript
  /\ NoTruncation
  /\ projectDirExists \in BOOLEAN
  /\ IF projectDirExists
     THEN \E files \in UNION {[1..n -> TruncateFiles] : n \in 0..MaxFiles} :
            logFiles = MapSeq(files, StampedFile)
     ELSE logFiles = <<>>
  /\ sessionsResult = <<>>
  /\ messagesResult = <<>>

NextDeleteSession == \E sessionId \in DeletableIds : deleteSession(sessionId)

SpecDeleteSession == InitDeleteSession /\ [][NextDeleteSession]_vars

(***************************************************************************)
(* SpecSessionDelete: the client and the server of Spec, where the user    *)
(* also deletes sessions from the sidebar.                                 *)
(***************************************************************************)
NextSessionDelete ==
  \/ Next
  \/ nClicks < MaxClicks /\ \E i \in DOMAIN projects :
       \E j \in DOMAIN projects[i].sessions : handleSessionDelete(i, j)

SpecSessionDelete == Init /\ [][NextSessionDelete]_vars

(***************************************************************************)
(* Properties.                                                             *)
(***************************************************************************)
AllSessions(projs) == UNION {Range(projs[i].sessions) : i \in DOMAIN projs}

\* the sessions of every view: projects, selectedProject, selectedSession
ViewedSessions ==
  AllSessions(projects) \cup AllSessions(selectedProject) \cup Range(selectedSession)

\* the step in which the 'session-created' message of invocation k is sent
\* and handled
SessionCreatedStep(k) ==
  /\ k \in DOMAIN invocations
  /\ ~invocations[k].sessionCreatedSent
  /\ invocations'[k].sessionCreatedSent

\* C1: when the client has processed the 'session-created' message that
\* carries R for a command sent with the placeholder P, the Protection Set
\* contains R and not P, and no session of projects, of selectedProject or
\* as selectedSession has identity P.
C1_PlaceholderReplacedOnIdentity ==
  [][\A k \in DOMAIN invocations :
       SessionCreatedStep(k) /\ StartsWithTemp(invocations[k].sessionId)
         => /\ invocations[k].realId \in activeSessions'
            /\ invocations[k].sessionId \notin activeSessions'
            /\ \A x \in ViewedSessions' : x.id # invocations[k].sessionId]_vars

\* a command has been sent and the client has not processed its terminal event
InFlight == isLoading /\ \E k \in DOMAIN invocations : invocations[k].running

\* C2: while a conversation is in flight, the handling of a 'projects_updated'
\* snapshot neither clears nor changes the selected session and does not
\* empty the transcript in view.
C2_SnapshotKeepsConversationInFlight ==
  [][InFlight /\ projects_updated(serverProjects)
       => /\ IdOf(selectedSession') = IdOf(selectedSession)
          /\ (chatMessages # <<>> => chatMessages' # <<>>)]_vars

\* the session lists in view: of every project and of the selected project
SessionLists ==
  {projects[i].sessions : i \in DOMAIN projects}
    \cup {selectedProject[i].sessions : i \in DOMAIN selectedProject}

Ids(sessions) == {sessions[i].id : i \in DOMAIN sessions}

NoTwoWithSameId(sessions) ==
  \A i, j \in DOMAIN sessions : sessions[i].id = sessions[j].id => i = j

\* C3: no session list, of projects or of selectedProject, holds both the
\* placeholder a command was sent with and the real session created for it,
\* and no list holds two entries with the same identity.
C3_PlaceholderNeverWithRealCounterpart ==
  \A sessions \in SessionLists :
    /\ NoTwoWithSameId(sessions)
    /\ \A k \in DOMAIN invocations :
         StartsWithTemp(invocations[k].sessionId)
           => ~({invocations[k].sessionId, invocations[k].realId} \subseteq Ids(sessions))

\* the 'session-created' message of invocation k is being handled and the handler
\* replaces the placeholder the command was sent for
ReplacementStep(k) ==
  /\ SessionCreatedStep(k)
  /\ StartsWithTemp(invocations[k].sessionId)
  /\ lastSentSessionId = invocations[k].sessionId
  /\ ~HasId(currentSessionId)

\* the state the claim speaks of: projects, the selection, the stored records and
\* the Protection Set
Listed(st) ==
  <<st.v.projects, st.v.selectedProject, st.v.selectedSession,
    st.placeholderSessions, st.activeSessions>>

\* C4: identity assignment is idempotent.  Whenever 'session-created' is handled
\* and replaces the placeholder P a command was sent for by the real identity R,
\* calling replacePlaceholderSession(R, P) a second time changes nothing, and
\* handling the same message a second time leaves projects, the selection, the
\* stored placeholder records and the Protection Set as the first handling left
\* them, with no list holding two entries of identity R.
C4_IdentityAssignmentIdempotent ==
  [][\A k \in DOMAIN invocations :
       ReplacementStep(k)
         => LET R == invocations[k].realId
                P == invocations[k].sessionId
                once == replacePlaceholderSession(View, R, P)
                onceActive == replacePlaceholderActive(activeSessions, R, P)
                onceStored == RemoveStored(placeholderSessions, P)
                first == ClientState'
                second == HandleSessionCreated(first, R)
                lists == {second.v.projects[i].sessions : i \in DOMAIN second.v.projects}
                           \cup {second.v.selectedProject[i].sessions :
                                   i \in DOMAIN second.v.selectedProject}
            IN  /\ replacePlaceholderSession(once, R, P) = once
                /\ replacePlaceholderActive(onceActive, R, P) = onceActive
                /\ RemoveStored(onceStored, P) = onceStored
                /\ Listed(second) = Listed(first)
                /\ \A sessions \in lists :
                     \A i, j \in DOMAIN sessions :
                       sessions[i].id = R /\ sessions[j].id = R => i = j]_vars

\* after holds what before holds, entry for entry, with the entry of identity P
\* turned into the same session with identity R and isPlaceholder = FALSE
SubstitutedInPlace(before, after, R, P) ==
  /\ Len(after) = Len(before)
  /\ \A i \in DOMAIN before :
       /\ after[i] = [before[i] EXCEPT !.sessions = after[i].sessions]
       /\ Len(after[i].sessions) = Len(before[i].sessions)
       /\ \A j \in DOMAIN before[i].sessions :
            after[i].sessions[j] =
              IF before[i].sessions[j].id = P
              THEN [before[i].sessions[j] EXCEPT !.id = R, !.isPlaceholder = FALSE]
              ELSE before[i].sessions[j]

SelectionKept(before, after, R, P) ==
  IF IdOf(before) = P
  THEN after = <<[before[1] EXCEPT !.id = R, !.isPlaceholder = FALSE]>>
  ELSE after = before

PlaceholderIds == {x.id : x \in {y \in ViewedSessions : StartsWithTemp(y.id)}}

\* C5: replacePlaceholderSession(R, P) substitutes in place.  In every state, for
\* every placeholder P on view, the function keeps the length and order of every
\* session list of projects and of selectedProject, turns P's entry into the same
\* session with id R and isPlaceholder = FALSE, leaves every other session and
\* project alone, and a selection that is on P becomes the same session with
\* id R and any other selection is left as it is; and when the 'session-created'
\* handler calls it, that is what projects holds afterwards.
C5_ReplacementInPlace ==
  [][/\ \A P \in PlaceholderIds : \A k \in 1..MaxResubmits :
          LET v == replacePlaceholderSession(View, FreshId(k), P)
          IN  /\ SubstitutedInPlace(projects, v.projects, FreshId(k), P)
              /\ SubstitutedInPlace(selectedProject, v.selectedProject, FreshId(k), P)
              /\ SelectionKept(selectedSession, v.selectedSession, FreshId(k), P)
     /\ \A k \in DOMAIN invocations :
          ReplacementStep(k)
            => LET R == invocations[k].realId
                   P == invocations[k].sessionId
               IN  SubstitutedInPlace(projects, projects', R, P)]_vars

\* the handler has called replacePlaceholderSession and the placeholder's entry
\* is now the real session, in projects and in selectedProject
C5_Witness ==
  \E k \in DOMAIN invocations :
    /\ StartsWithTemp(invocations[k].sessionId)
    /\ invocations[k].sessionCreatedSent
    /\ \E sessions \in {projects[i].sessions : i \in DOMAIN projects} :
         \E other \in {selectedProject[i].sessions : i \in DOMAIN selectedProject} :
           \E j \in DOMAIN sessions :
             /\ j \in DOMAIN other
             /\ sessions[j] = other[j]
             /\ sessions[j].id = invocations[k].realId
             /\ sessions[j].title = "New Conversation"
             /\ ~sessions[j].isPlaceholder

\* handleSubmit dispatches its 'claude-command'
Dispatch == submitting # <<>> /\ Len(invocations') = Len(invocations) + 1

\* C6: handleSubmit adds the active identity (placeholder, real identity,
\* conversation marker or fresh 'new-session-*' marker) to the Protection Set
\* before its await, and when it dispatches the 'claude-command' that identity is
\* in the Protection Set and the stored record of a placeholder sent is marked
\* pendingConversion with the time of the dispatch.
C6_ProtectedBeforeDispatch ==
  [][/\ submitting = <<>> /\ submitting' # <<>>
          => submitting'[1].sessionToActivate \in activeSessions'
     /\ Dispatch
          => /\ submitting[1].sessionToActivate \in activeSessions
             /\ \A i \in DOMAIN placeholderSessions' :
                  placeholderSessions'[i].id = submitting[1].sessionIdToUse
                    => /\ placeholderSessions'[i].pendingConversion
                       /\ placeholderSessions'[i].pendingConversionTime = now]_vars

IsMarker(id) == id[1] = "new-session-" \/ id[1] = "conversation-"

NothingInFlight ==
  /\ submitting = <<>>
  /\ \A k \in DOMAIN invocations : ~invocations[k].running

\* C7: once the terminal event of every conversation sent has been processed, the
\* Protection Set holds none of the identities added when their messages were
\* sent: no real identity or placeholder a command was sent for, no real identity
\* that replaced one, no 'new-session-*' marker and no 'conversation-*' marker.
C7_TerminalEventEndsProtection ==
  NothingInFlight
    => \A id \in activeSessions :
         /\ ~IsMarker(id)
         /\ \A k \in DOMAIN invocations :
              id # invocations[k].sessionId /\ id # invocations[k].realId

\* C8: a 'projects_updated' snapshot that arrives while no session is selected,
\* or while the selected session's identity is not in the Protection Set, is
\* applied in full: projects becomes the snapshot's projects with the valid
\* placeholders re-added.
C8_UnprotectedSnapshotApplied ==
  [][projects_updated(serverProjects)
       /\ (selectedSession = <<>> \/ IdOf(selectedSession) \notin activeSessions)
     => projects' = addPlaceholderSessions(serverProjects, placeholderSessions, now)]_vars

\* C9: while the selected session is a placeholder (isPlaceholder set, or an
\* identity with the 'temp-' prefix), isUpdateAdditive allows the snapshot the
\* server would send, whatever the project directory and the current project
\* list hold.
C9_PlaceholderSelectedAllowsSnapshot ==
  selectedSession # <<>>
    /\ (selectedSession[1].isPlaceholder \/ StartsWithTemp(selectedSession[1].id))
  => isUpdateAdditive(projects, serverProjects, selectedProject, selectedSession)

RemoveAt(s, j) == SubSeq(s, 1, j - 1) \o SubSeq(s, j + 1, Len(s))

\* snapshot holds what current holds and, at place j of project i, one more
\* session, of an identity current does not hold
OneSessionAdded(snapshot, current, i, j) ==
  /\ Len(snapshot) = Len(current)
  /\ i \in DOMAIN snapshot
  /\ j \in DOMAIN snapshot[i].sessions
  /\ \A p \in DOMAIN current :
       /\ snapshot[p].name = current[p].name
       /\ current[p].sessions =
            IF p = i THEN RemoveAt(snapshot[p].sessions, j) ELSE snapshot[p].sessions
  /\ \A x \in AllSessions(current) : x.id # snapshot[i].sessions[j].id

\* C10: a 'projects_updated' snapshot that holds the current projects and
\* sessions and one added session of another identity, in the selected project
\* or in another one, is applied, also while the selected session is in the
\* Protection Set: afterwards the added session is in projects and the selected
\* session is the one selected before.
C10_AddedSessionApplied ==
  [][\A i \in DOMAIN serverProjects : \A j \in DOMAIN serverProjects[i].sessions :
       projects_updated(serverProjects) /\ OneSessionAdded(serverProjects, projects, i, j)
         => /\ serverProjects[i].sessions[j] \in AllSessions(projects')
            /\ selectedSession' = selectedSession]_vars
(***************************************************************************)
(* C11.  A snapshot in which the selected session's title differs from the *)
(* title the session has in the current project list is suppressed while   *)
(* the Protection Set contains the selected session's id (projects,        *)
(* selectedProject, selectedSession and the stored placeholder records stay *)
(* unchanged), and is applied once the Protection Set no longer contains   *)
(* that id.                                                                *)
(***************************************************************************)
\* the titles the session with this id has in the project called name
TitlesOf(list, name, id) ==
  UNION {{list[i].sessions[j].title :
            j \in {k \in DOMAIN list[i].sessions : list[i].sessions[k].id = id}} :
          i \in {n \in DOMAIN list : list[n].name = name}}

SelectedTitleDiffers(updatedProjects) ==
  /\ selectedProject # <<>>
  /\ selectedSession # <<>>
  /\ TitlesOf(projects, NameOf(selectedProject), IdOf(selectedSession)) # {}
  /\ TitlesOf(updatedProjects, NameOf(selectedProject), IdOf(selectedSession)) # {}
  /\ TitlesOf(projects, NameOf(selectedProject), IdOf(selectedSession))
       # TitlesOf(updatedProjects, NameOf(selectedProject), IdOf(selectedSession))

SnapshotSuppressed ==
  UNCHANGED <<projects, selectedProject, selectedSession, placeholderSessions>>

SnapshotApplied(updatedProjects) ==
  projects' = addPlaceholderSessions(updatedProjects, placeholderSessions, now)

C11_TitleChangeSuppressedWhileProtected ==
  [][(projects_updated(serverProjects) /\ SelectedTitleDiffers(serverProjects))
       => IF IdOf(selectedSession) \in activeSessions
          THEN SnapshotSuppressed
          ELSE SnapshotApplied(serverProjects)]_vars
(***************************************************************************)
(* C12.  While the selected real session is protected, a snapshot is       *)
(* applied only if the selected project and the selected session are found *)
(* by identity in the current data and in the snapshot and the session's   *)
(* id, title, created_at, updated_at and lastActivity are the same in      *)
(* both; any difference, also the session missing from the snapshot,       *)
(* blocks the whole snapshot.                                              *)
(***************************************************************************)
\* the records the session with this id has in the project called name
RecordsOf(list, name, id) ==
  UNION {{list[i].sessions[j] :
            j \in {k \in DOMAIN list[i].sessions : list[i].sessions[k].id = id}} :
          i \in {n \in DOMAIN list : list[n].name = name}}

KeyFields(session) ==
  <<session.id, session.title, session.created_at, session.updated_at,
    session.lastActivity>>

SelectedSessionIdentical(updatedProjects) ==
  /\ selectedProject # <<>>
  /\ \E c \in RecordsOf(projects, NameOf(selectedProject), IdOf(selectedSession)) :
       \E u \in RecordsOf(updatedProjects, NameOf(selectedProject), IdOf(selectedSession)) :
         KeyFields(c) = KeyFields(u)

ProtectedRealSelected ==
  /\ selectedSession # <<>>
  /\ ~selectedSession[1].isPlaceholder
  /\ ~StartsWithTemp(IdOf(selectedSession))
  /\ IdOf(selectedSession) \in activeSessions

C12_ProtectedSnapshotOnlyIfSelectedIdentical ==
  [][(projects_updated(serverProjects) /\ ProtectedRealSelected /\ ~SnapshotSuppressed)
       => SelectedSessionIdentical(serverProjects)]_vars
(***************************************************************************)
(* C13.  addPlaceholderSessions, run by fetchProjects and by the           *)
(* 'projects_updated' handler, removes a placeholder record from storage   *)
(* only when the record is older than maxAge, or its project is absent     *)
(* from the project list, or it has been pendingConversion for longer      *)
(* than pendingConversionTimeout; a record that has been pendingConversion *)
(* for less than the timeout stays in storage.                             *)
(***************************************************************************)
MayBePruned(r, projs, t) ==
  \/ t - r.createdAt >= maxAge
  \/ \A i \in DOMAIN projs : projs[i].name # r.projectName
  \/ r.pendingConversion /\ t - r.pendingConversionTime > pendingConversionTimeout

C13_PlaceholderPrunedOnlyWhenOrphaned ==
  [][(projects_updated(serverProjects) \/ fetchProjects(serverProjects))
       => \A r \in Range(placeholderSessions) :
            (\A q \in Range(placeholderSessions') : q.id # r.id)
              => MayBePruned(r, serverProjects, now)]_vars
(***************************************************************************)
(* C14.  For every spawnClaude call at most one 'session-created' is sent, *)
(* also when the assigned id shows both in the subprocess output and in    *)
(* the post-exit scan; and when the input id was absent or a placeholder   *)
(* and either source has revealed the assigned id, exactly one is sent.    *)
(***************************************************************************)
\* how many messages of this type the handlers of call k have sent
SentBy(type, k) ==
  LET mine == {m \in BagToSet(wsSent) : m.type = type /\ m.proc = k}
      Sum[S \in SUBSET mine] ==
        IF S = {} THEN 0
        ELSE LET m == CHOOSE x \in S : TRUE
             IN  CopiesIn(m, wsSent) + Sum[S \ {m}]
  IN  Sum[mine]

IdentityRevealed(p) == NeedsIdentity(p) /\ ~NotCaptured(p)

C14_SessionCreatedOncePerInvocation ==
  \A k \in DOMAIN claudeProcesses :
    /\ SentBy("session-created", k) <= 1
    /\ IdentityRevealed(claudeProcesses[k]) => SentBy("session-created", k) = 1

\* the scan has run after the id was captured from the output
C14_Witness ==
  \E k \in DOMAIN claudeProcesses :
    /\ IdentityRevealed(claudeProcesses[k])
    /\ claudeProcesses[k].lines > 0
    /\ claudeProcesses[k].status = "closed"
    /\ ~claudeProcesses[k].scanPending
    /\ CopiesIn(Sent("claude-complete", NoId, k, TRUE), wsSent) = 1
    /\ SentBy("session-created", k) = 1
(***************************************************************************)
(* C15.  For every spawnClaude call at most one terminal event is sent:    *)
(* never both 'claude-complete' and the 'session-aborted' that answers the *)
(* abort of its subprocess, and neither of them twice.                     *)
(***************************************************************************)
TerminalEvents(k) == SentBy("claude-complete", k) + SentBy("session-aborted", k)

C15_OneTerminalEventPerInvocation ==
  \A k \in DOMAIN claudeProcesses : TerminalEvents(k) <= 1
(***************************************************************************)
(* C16.  Every spawnClaude call is followed in the end by a terminal event *)
(* ('claude-complete' or 'session-aborted') for the client, whatever the   *)
(* outcome: exit with code 0, exit with another code, spawn error or       *)
(* executable not found.                                                   *)
(***************************************************************************)
C16_InvocationEndsWithTerminalEvent ==
  \A k \in 1..MaxInvocations :
    (k \in DOMAIN claudeProcesses) ~> (TerminalEvents(k) >= 1)
(***************************************************************************)
(* C17.  activeClaudeProcesses tracks exactly the running invocations:     *)
(* from its spawn until its terminal event (close, error or abort) a       *)
(* subprocess has one entry, under the input id or, once the real id was   *)
(* captured from the output, under the real id; after the terminal event   *)
(* no entry for it remains.  So an abort for an id under which a running   *)
(* invocation is keyed signals that subprocess and no other.               *)
(***************************************************************************)
KeysOf(k) == {key \in DOMAIN activeClaudeProcesses : activeClaudeProcesses[key] = k}

BeforeTerminalEvent(p) == p.status = "running" /\ ~p.signalled

C17_ProcessTableTracksRunning ==
  \A k \in DOMAIN claudeProcesses :
    KeysOf(k) = IF BeforeTerminalEvent(claudeProcesses[k])
                THEN {finalSessionId(claudeProcesses[k])}
                ELSE {}
(***************************************************************************)
(* C18.  Abort is idempotent.  abortClaudeSession(id) for an id with a     *)
(* tracked subprocess signals that subprocess, removes the entry and       *)
(* returns true; for an id that is not tracked, as in a second abort, it   *)
(* signals nothing, leaves the table unchanged and returns false.  Every   *)
(* 'abort-session' is answered by exactly one 'session-aborted' with the   *)
(* id and the success value.                                               *)
(***************************************************************************)
\* one more copy of message m was sent and no other 'session-aborted'
AnsweredOnceWith(m) ==
  /\ CopiesIn(m, wsSent') = CopiesIn(m, wsSent) + 1
  /\ nSent("session-aborted")' = nSent("session-aborted") + 1

C18_AbortIdempotent ==
  [][\A id \in AbortIds :
       OnAbortSession(id) =>
         /\ IF id \in DOMAIN activeClaudeProcesses
            THEN /\ claudeProcesses' =
                      [claudeProcesses EXCEPT
                         ![activeClaudeProcesses[id]].signalled = TRUE]
                 /\ activeClaudeProcesses' = MapDelete(activeClaudeProcesses, id)
                 /\ AnsweredOnceWith(
                      Sent("session-aborted", id, activeClaudeProcesses[id], TRUE))
            ELSE /\ UNCHANGED <<claudeProcesses, activeClaudeProcesses>>
                 /\ AnsweredOnceWith(Sent("session-aborted", id, 0, FALSE))
         /\ id \notin DOMAIN activeClaudeProcesses']_vars

\* an abort that signalled a subprocess and a second abort for the same id
C18_Witness ==
  \E id \in AbortIds : \E k \in DOMAIN claudeProcesses :
    /\ claudeProcesses[k].signalled
    /\ CopiesIn(Sent("session-aborted", id, k, TRUE), wsSent) = 1
    /\ CopiesIn(Sent("session-aborted", id, 0, FALSE), wsSent) = 1
(***************************************************************************)
(* C19.  However the subprocess's stdout arrives in chunks, the server     *)
(* forwards exactly one event per non-empty output line, in output order:  *)
(* 'claude-response' with the parsed value for a line of valid JSON,       *)
(* 'claude-output' with the line's text otherwise; no line is dropped,     *)
(* split into several events or merged with another.                       *)
(***************************************************************************)
\* the non-empty lines of the whole output, in order
OutputLines(text) ==
  LET lines == Split(text)
  IN  [k \in 1..Cardinality({i \in DOMAIN lines : lines[i] # <<>>}) |->
         lines[CHOOSE i \in DOMAIN lines :
                 /\ lines[i] # <<>>
                 /\ Cardinality({j \in 1..i : lines[j] # <<>>}) = k]]

C19_OneEventPerOutputLine ==
  stdoutRead = Len(stdoutText) =>
    /\ Len(forwarded) = Len(OutputLines(stdoutText))
    /\ \A k \in DOMAIN forwarded :
         /\ forwarded[k].data = OutputLines(stdoutText)[k]
         /\ forwarded[k].type =
              IF IsJson(OutputLines(stdoutText)[k]) THEN "claude-response"
              ELSE "claude-output"
(***************************************************************************)
(* C20.  getSessions returns at most one record per session id, also when  *)
(* several log files of the project hold entries with that sessionId; the  *)
(* record kept is the one from the first file scanned, the files being     *)
(* scanned most recently modified first.                                   *)
(***************************************************************************)
\* the files that hold an entry of the session
FilesWith(id) ==
  {i \in DOMAIN logFiles : \E e \in Range(logFiles[i].entries) : e.sessionId = id}

\* of those, the one scanned first: the most recently modified, and among
\* equally recent ones the first in directory order
FirstScanned(id) ==
  CHOOSE i \in FilesWith(id) :
    \A j \in FilesWith(id) :
      \/ logFiles[i].mtime > logFiles[j].mtime
      \/ logFiles[i].mtime = logFiles[j].mtime /\ i <= j

\* what that file says about the session
RecordIn(i, id) ==
  LET es == logFiles[i].entries
      mine == {n \in DOMAIN es : es[n].sessionId = id}
  IN  [id |-> id, summary |-> "New Session", messageCount |-> Cardinality(mine),
       lastActivity |-> es[CHOOSE n \in mine : \A m \in mine : m <= n].timestamp]

C20_OneRecordPerSessionId ==
  sessionsResult # <<>> =>
    LET returned == sessionsResult[1].sessions
    IN  /\ \A i, j \in DOMAIN returned : returned[i].id = returned[j].id => i = j
        /\ \A i \in DOMAIN returned :
             returned[i] = RecordIn(FirstScanned(returned[i].id), returned[i].id)

\* two files tell different things about one session, and it was returned
C20_Witness ==
  /\ sessionsResult # <<>>
  /\ \E id \in {Real(1), Real(2)} :
       /\ \E i, j \in FilesWith(id) : RecordIn(i, id) # RecordIn(j, id)
       /\ \E k \in DOMAIN sessionsResult[1].sessions :
            sessionsResult[1].sessions[k].id = id
(***************************************************************************)
(* C21.  getSessions(project, limit, offset) returns the sessions sorted   *)
(* by lastActivity descending: sessions is the slice [offset, offset +     *)
(* limit) of that order and has at most limit records, total is the number *)
(* of distinct session ids in the project's log files, hasMore is true     *)
(* exactly when offset + limit < total, and successive pages list every    *)
(* session exactly once.                                                   *)
(***************************************************************************)
\* the session ids in the log files of the project
LoggedIds == UNION {{e.sessionId : e \in Range(logFiles[i].entries)} : i \in DOMAIN logFiles}

\* the pages of this size that list the session
PagesWith(id, limit) ==
  {n \in 0..Cardinality(LoggedIds) :
     \E x \in Range(getSessions(logFiles, limit, n * limit).sessions) : x.id = id}

C21_SessionsPaged ==
  sessionsResult # <<>> =>
    LET r == sessionsResult[1]
    IN  /\ \A i, j \in DOMAIN r.sessions :
             i < j => r.sessions[i].lastActivity >= r.sessions[j].lastActivity
        /\ Len(r.sessions) <= r.limit
        /\ r.total = Cardinality(LoggedIds)
        /\ r.hasMore = (r.offset + r.limit < r.total)
        /\ Len(r.sessions) = Min(r.limit, IF r.total > r.offset THEN r.total - r.offset ELSE 0)
        /\ \A id \in LoggedIds : Cardinality(PagesWith(id, r.limit)) = 1
(***************************************************************************)
(* C22.  Round trip: for every session id getSessions returns for a        *)
(* project, getSessionMessages returns a non-empty list that holds exactly *)
(* the log entries of all the project's files with that sessionId, sorted  *)
(* by timestamp ascending; for an id with the placeholder prefix it        *)
(* returns an empty list; and for a project whose directory does not exist *)
(* both return empty results.                                              *)
(***************************************************************************)
\* how often the entry occurs in the sequence
Occurrences(entries, e) == Cardinality({i \in DOMAIN entries : entries[i] = e})

\* the entries of the session in file i
EntriesIn(i, id) ==
  {n \in DOMAIN logFiles[i].entries : logFiles[i].entries[n].sessionId = id}

\* how often the entry is logged for its session in the project's files
Logged(e) ==
  Cardinality({<<i, n>> \in (DOMAIN logFiles) \X (1..MaxEntries) :
                 n \in DOMAIN logFiles[i].entries /\ logFiles[i].entries[n] = e})

C22_SessionMessagesRoundTrip ==
  /\ messagesResult # <<>> =>
       LET id == messagesResult[1].sessionId
           messages == messagesResult[1].messages
       IN  IF StartsWithTemp(id) \/ ~projectDirExists THEN messages = <<>>
           ELSE /\ \A i, j \in DOMAIN messages :
                     i < j => messages[i].timestamp <= messages[j].timestamp
                /\ \A e \in Range(messages) : e.sessionId = id
                /\ \A e \in LogEntries :
                     e.sessionId = id => Occurrences(messages, e) = Logged(e)
                /\ (sessionsResult # <<>>
                    /\ \E x \in Range(sessionsResult[1].sessions) : x.id = id)
                     => messages # <<>>
  /\ (sessionsResult # <<>> /\ ~projectDirExists) =>
       sessionsResult[1].sessions = <<>> /\ sessionsResult[1].total = 0

\* the messages of a listed session, gathered from two files
C22_Witness ==
  /\ sessionsResult # <<>>
  /\ messagesResult # <<>>
  /\ \E x \in Range(sessionsResult[1].sessions) : x.id = messagesResult[1].sessionId
  /\ Len(messagesResult[1].messages) >= 2
  /\ Cardinality({i \in DOMAIN logFiles :
                    EntriesIn(i, messagesResult[1].sessionId) # {}}) = 2
(***************************************************************************)
(* C23.  extractProjectDirectory resolves a project's path in three tiers: *)
(* the configured originalPath when present; otherwise, from the cwd       *)
(* values of the project's log entries, the single cwd when there is only  *)
(* one, and with several the most recent cwd when it accounts for at least *)
(* 25% of the observed cwd occurrences, else the most frequent cwd;        *)
(* otherwise (no directory, no log file or no cwd) the path decoded from   *)
(* the project name.                                                       *)
(***************************************************************************)
\* the entries of the project's log files that carry a cwd
ObservedCwds == CwdEntries(cwdFiles)

\* the cwds observed most often
MostFrequentCwds ==
  {ObservedCwds[i].cwd[1] : i \in
     {i \in DOMAIN ObservedCwds :
        \A j \in DOMAIN ObservedCwds :
          cwdCount(ObservedCwds, ObservedCwds[j].cwd[1])
            <= cwdCount(ObservedCwds, ObservedCwds[i].cwd[1])}}

C23_PathResolvedInThreeTiers ==
  extractedPath # <<>> =>
    LET path == extractedPath[1]
        latest == latestCwd(ObservedCwds)
    IN  IF pathProject \in DOMAIN projectConfig
           /\ projectConfig[pathProject].originalPath # <<>>
        THEN path = projectConfig[pathProject].originalPath[1]
        ELSE IF ~projectDirExists \/ cwdFiles = <<>> \/ ObservedCwds = <<>>
        THEN path = smartDecodeProjectName(pathProject)
        ELSE IF Cardinality({ObservedCwds[i].cwd : i \in DOMAIN ObservedCwds}) = 1
        THEN path = ObservedCwds[1].cwd[1]
        ELSE IF 4 * cwdCount(ObservedCwds, latest[1]) >= Len(ObservedCwds)
        THEN path = latest[1]
        ELSE path \in MostFrequentCwds
(***************************************************************************)
(* C24.  Debounce: a burst of filesystem events in which each event        *)
(* follows the previous one within the debounce window yields exactly one  *)
(* snapshot push, issued after the last event of the burst and carrying    *)
(* that event's change type and file; two events further apart than the    *)
(* window yield one push each.  (An event exactly one window after the     *)
(* previous one may count either way.)                                     *)
(***************************************************************************)
\* the events after event i
After(i) == {j \in FsEvents : j > i}

\* the time between event i and the next one (only if there is one)
GapAfter(i) == watcherLog[CHOOSE j \in After(i) : \A k \in After(i) : j <= k].gap

\* the event is followed by another within the window
Superseded(i) == After(i) # {} /\ GapAfter(i) < debounceDelay

\* the event is the last of its burst
EndsBurst(i) == After(i) = {} \/ GapAfter(i) > debounceDelay

PushesFor(i) == {p \in Pushes : watcherLog[p].file = watcherLog[i].file}

\* a push follows the event it carries, is the only one for it, and none
\* is made for an event inside a burst
DebounceSafe ==
  /\ \A p \in Pushes :
       \E i \in FsEvents :
         i < p /\ watcherLog[i].file = watcherLog[p].file
               /\ watcherLog[i].type = watcherLog[p].type
  /\ \A i \in FsEvents :
       /\ Cardinality(PushesFor(i)) <= 1
       /\ Superseded(i) => PushesFor(i) = {}

\* every burst has its push
DebounceSettled ==
  \A i \in FsEvents : EndsBurst(i) => Cardinality(PushesFor(i)) = 1

C24_OnePushPerBurst == []DebounceSafe /\ <>[]DebounceSettled

\* a burst of two events and a third event later than the window, both pushed
C24_Witness ==
  /\ Cardinality(FsEvents) = 3
  /\ Cardinality(Pushes) = 2
  /\ \E i \in FsEvents : Superseded(i)
  /\ \E i \in FsEvents : After(i) # {} /\ GapAfter(i) > debounceDelay
  /\ DebounceSettled
(***************************************************************************)
(* C25.  In every list returned by getProjects the project names are       *)
(* unique and at most one project has a given fullPath; when an            *)
(* auto-discovered and a manually registered project collide on a path the *)
(* manual one is kept, and of two of the same kind the first seen.         *)
(***************************************************************************)
\* the projects getProjects comes across, in the order it sees them: the
\* directories, then the manually added projects without a directory
Candidates ==
  LET Seen(dir) ==
        Project(dir.name,
                resolveProjectDirectory(dir.name, projectConfig, TRUE, LinesOf(dir.files)),
                IsManuallyAdded(projectConfig, dir.name))
      Registered(name) ==
        Project(name,
                resolveProjectDirectory(name, projectConfig, FALSE, <<>>), TRUE)
      Missing(name) ==
        IsManuallyAdded(projectConfig, name) /\ name \notin DirNames(claudeProjectDirs)
  IN  MapSeq(claudeProjectDirs, Seen) \o MapSeq(Filter(configOrder, Missing), Registered)

\* the list has no name and no fullPath twice, and holds, of the candidates
\* for a path, the first manually added one, or else the first one
ProjectsUnique(candidates, listed) ==
  /\ \A i, j \in DOMAIN listed :
       i # j => /\ listed[i].name # listed[j].name
                /\ listed[i].fullPath # listed[j].fullPath
  /\ \A i \in DOMAIN listed :
       \E k \in DOMAIN candidates :
         /\ candidates[k].name = listed[i].name
         /\ \A m \in DOMAIN candidates :
              (m # k /\ candidates[m].fullPath = candidates[k].fullPath)
                => \/ candidates[k].isManuallyAdded /\ ~candidates[m].isManuallyAdded
                   \/ candidates[k].isManuallyAdded = candidates[m].isManuallyAdded /\ k < m

ListedIn(listed, name) == \E i \in DOMAIN listed : listed[i].name = name

\* the directory holds a log entry
HasLogEntry(dir) == \E i \in DOMAIN dir.files : dir.files[i].entries # <<>>

ProjectDeleted ==
  deleteResult # <<>> =>
    /\ deleteResult[1].success
    /\ deleteResult[1].name \notin DOMAIN projectConfig
    /\ ~deleteResult[1].failed => deleteResult[1].name \notin DirNames(claudeProjectDirs)

C27_DeletedProjectGone ==
  /\ []ProjectDeleted
  /\ [][(deleteResult # <<>> /\ ~deleteResult[1].failed /\ OnGetProjects)
          => ~ListedIn(projectsResult'[1], deleteResult[1].name)]_vars
(***************************************************************************)
(* C28.  convertFromAPI emits, in log order, one transcript entry per user *)
(* text block and one per assistant text or tool-use block; each tool-use  *)
(* entry carries the tool-result block whose tool_use_id equals its id,    *)
(* wherever that result occurs in the log, and has no toolResult when none *)
(* exists; user messages whose text starts with '<command-name>' produce   *)
(* no entry.                                                               *)
(***************************************************************************)
\* the entries the claim gives a user message: one for each text block
ClaimedUserEntries(msg) ==
  LET IsText(p) == p.type = "text"
      Entry(p) == ChatEntry("user", p.text, msg.timestamp, FALSE, 0, <<>>)
      texts == Filter(msg.content.parts, IsText)
  IN  IF ~msg.content.isArray
      THEN IF msg.content.text # <<>> /\ ~StartsWithCommandName(msg.content.text)
           THEN <<ChatEntry("user", msg.content.text, msg.timestamp, FALSE, 0, <<>>)>>
           ELSE <<>>
      ELSE IF texts # <<>> /\ ~StartsWithCommandName(texts[1].text)
      THEN MapSeq(texts, Entry)
      ELSE <<>>

\* the entries the claim gives the first n messages, without their tool results
RECURSIVE ClaimedEntries(_, _)
ClaimedEntries(messages, n) ==
  IF n = 0 THEN <<>>
  ELSE ClaimedEntries(messages, n - 1)
       \o (IF messages[n].role = "user"
           THEN ClaimedUserEntries(messages[n])
           ELSE convertAssistantMessage(messages[n], <<>>))

\* the tool_result blocks of the log with the id
ResultBlocks(id) ==
  {<<i, k>> \in (DOMAIN apiMessages) \X (1..MaxParts) :
     /\ apiMessages[i].content.isArray
     /\ k \in DOMAIN apiMessages[i].content.parts
     /\ apiMessages[i].content.parts[k].type = "tool_result"
     /\ apiMessages[i].content.parts[k].id = id}

C28_OneEntryPerBlock ==
  converted # <<>> =>
    LET entries == converted[1]
        claimed == ClaimedEntries(apiMessages, Len(apiMessages))
    IN  /\ Len(entries) = Len(claimed)
        /\ \A k \in DOMAIN entries :
             /\ entries[k].type = claimed[k].type
             /\ entries[k].content = claimed[k].content
             /\ entries[k].toolId = claimed[k].toolId
             /\ entries[k].isToolUse =>
                  IF ResultBlocks(entries[k].toolId) = {}
                  THEN entries[k].toolResult = <<>>
                  ELSE /\ entries[k].toolResult # <<>>
                       /\ \E p \in ResultBlocks(entries[k].toolId) :
                            entries[k].toolResult[1].content
                              = apiMessages[p[1]].content.parts[p[2]].text

(***************************************************************************)
(* C29.  Checkpoint association keeps the tier order: each loaded user     *)
(* message, with one trailing newline removed from its content, gets the   *)
(* checkpoint with the same content and exactly the same timestamp if one  *)
(* exists, else one with equal content and a timestamp within the          *)
(* tolerance, else one with equal content only, else none.  A checkpoint   *)
(* exactly the tolerance away may count as within it or not.               *)
(***************************************************************************)
SameContent(cp, message) == cp.content = cleanContent(message.content)

SameTime(cp, message) == SameContent(cp, message) /\ cp.timestamp = message.timestamp

Within(cp, message, limit) ==
  SameContent(cp, message) /\ Distance(cp.timestamp, message.timestamp) < limit

Stored == {checkpointStore[i] : i \in DOMAIN checkpointStore}

TierOrder(message, attached) ==
  IF \E cp \in Stored : SameTime(cp, message)
  THEN attached # <<>> /\ SameTime(attached[1], message)
  ELSE IF \E cp \in Stored : Within(cp, message, tolerance)
  THEN attached # <<>> /\ Within(attached[1], message, tolerance + 1)
  ELSE IF \E cp \in Stored : SameContent(cp, message)
  THEN attached # <<>> /\ SameContent(attached[1], message)
  ELSE attached = <<>>

C29_CheckpointTierOrder ==
  restoredMessages # <<>> =>
    \A k \in DOMAIN restoredMessages[1] :
      restoredMessages[1][k].message.type = "user" =>
        TierOrder(restoredMessages[1][k].message, restoredMessages[1][k].checkpoint)

(***************************************************************************)
(* C30.  truncateSessionMessages replaces a log file by read-all, filter,  *)
(* write-temp and rename, and however the subprocess's appends fall        *)
(* between these steps, the file that the rename leaves consists of whole  *)
(* entries and has every entry that was appended since the file was read   *)
(* and every entry of another session.                                     *)
(***************************************************************************)
WholeEntries(file) ==
  \A k \in DOMAIN file.entries :
    /\ DOMAIN file.entries[k] = {"sessionId", "timestamp"}
    /\ file.entries[k].sessionId \in {Real(1), Real(2)}

KeptByRename(before, after) ==
  \A i \in DOMAIN before :
    (i > Len(truncation.allLines) \/ before[i].sessionId # truncation.sessionId)
      => \E j \in DOMAIN after : after[j] = before[i]

C30_TruncationKeepsAppends ==
  [][TruncateRename =>
       /\ WholeEntries(logFiles'[truncation.file])
       /\ KeptByRename(logFiles[truncation.file].entries,
                       logFiles'[truncation.file].entries)]_vars

(***************************************************************************)
(* C31.  While a conversation is active (the chat waits for the terminal   *)
(* event of its invocation), also when its placeholder identity is         *)
(* replaced by the real one, no step other than the user's switch to       *)
(* another session, conversation or project loads messages or replaces     *)
(* the in-view transcript: the transcript only grows at its end.           *)
(***************************************************************************)
IsPrefix(s, t) == Len(s) <= Len(t) /\ SubSeq(t, 1, Len(s)) = s

UserSwitches == nClicks' # nClicks

C31_NoReloadWhileActive ==
  [][(isLoading /\ ~UserSwitches) =>
       /\ sessionMessages' = sessionMessages
       /\ IsPrefix(chatMessages, chatMessages')]_vars

(***************************************************************************)
(* C32.  The path cache is invalidated on every change the watcher         *)
(* detects: however the snapshot computations overlap, the project path    *)
(* in a snapshot pushed for a change is the path that the log yields with  *)
(* that change in it, or with later ones, never one computed from the log  *)
(* as it was before the change.                                            *)
(***************************************************************************)
\* the path that the log of the project yielded when it had n entries
PathAt(n) ==
  resolveProjectDirectory(pathProject, projectConfig, TRUE,
                          <<SubSeq(cwdFiles[1], 1, n)>>)

C32_PushedPathNotStale ==
  \A i \in DOMAIN snapshotsSent :
    snapshotsSent[i].changeType = "change" =>
      \E n \in snapshotsSent[i].trigger..Len(cwdFiles[1]) :
        snapshotsSent[i].path = PathAt(n)

(***************************************************************************)
(* C34.  Snapshots reach the client in the order of the log states they    *)
(* describe: when a snapshot computation starts while an earlier           *)
(* getProjects is still running, the client never receives a snapshot of   *)
(* an older log state after one of a newer log state.                      *)
(***************************************************************************)
C34_SnapshotsInLogOrder ==
  \A i, j \in DOMAIN snapshotsSent :
    i < j => snapshotsSent[i].entries <= snapshotsSent[j].entries

(***************************************************************************)
(* C33.  No inbound message is applied twice by the client: a              *)
(* 'projects_updated' message that is delivered again, with the same type, *)
(* timestamp and content, is skipped at any time, also after the cleanup   *)
(* has trimmed the processed-message cache.                                *)
(***************************************************************************)
C33_NoMessageAppliedTwice ==
  \A message \in BagToSet(appliedMessages) : CopiesIn(message, appliedMessages) = 1

(***************************************************************************)
(* C35.  When deleteSession returns success for a real session, no log     *)
(* file of the project holds an entry of that session afterwards, also     *)
(* when its entries were spread over several files; the entries of every   *)
(* other session are the same, in the same order, in every file; and for   *)
(* a placeholder identity the call succeeds and no file changes.           *)
(***************************************************************************)
EntriesOf(files, sessionId) ==
  [i \in DOMAIN files |-> LET Same(e) == e.sessionId = sessionId
                          IN  Filter(files[i].entries, Same)]

Succeeds(sessionId) ==
  deleteSession(sessionId) /\ deleteSessionResult' = <<DeleteReturn>>

C35_DeleteRemovesSession ==
  [][\A sessionId \in DeletableIds :
       Succeeds(sessionId) =>
         IF sessionId[2] = "temp-"
         THEN logFiles' = logFiles
         ELSE /\ \A i \in DOMAIN logFiles' :
                   ~hasSession(logFiles'[i].entries, sessionId)
              /\ \A other \in DeletableIds \ {sessionId} :
                   EntriesOf(logFiles', other) = EntriesOf(logFiles, other)]_vars

(***************************************************************************)
(* C36.  When no subprocess appends meanwhile and truncate_messages for    *)
(* session id and count N is answered with success, the log files of the   *)
(* project hold at most N entries of the session in total; every rewrite   *)
(* of a file keeps a leading part of the session's entries in it, leaves   *)
(* the entries of every other session as they were and in order, and adds  *)
(* to the truncated count exactly the number of entries it removed.        *)
(***************************************************************************)
SumLen(s) == LET RECURSIVE sum(_)
                 sum(n) == IF n = 0 THEN 0 ELSE sum(n - 1) + Len(s[n])
             IN  sum(Len(s))

TotalEntries(files, sessionId) == SumLen(EntriesOf(files, sessionId))

TruncateSucceeds ==
  /\ truncation.pc # "idle"
  /\ truncation'.pc = "idle"
  /\ truncateResult' # <<>>
  /\ truncateResult'[1].success

TruncatedAfter ==
  IF truncation'.pc = "idle" THEN truncateResult'[1].truncatedCount
  ELSE truncation'.totalTruncated

C36_TruncateLeavesFirstN ==
  [][nAppends' = 0 =>
       /\ TruncateSucceeds =>
            TotalEntries(logFiles', truncation.sessionId) <= truncation.targetMessageCount
       /\ TruncateRename =>
            /\ IsPrefix(EntriesOf(logFiles', truncation.sessionId)[truncation.file],
                        EntriesOf(logFiles, truncation.sessionId)[truncation.file])
            /\ \A other \in {Real(1), Real(2)} \ {truncation.sessionId} :
                 EntriesOf(logFiles', other) = EntriesOf(logFiles, other)
            /\ TruncatedAfter - truncation.totalTruncated
                 = TotalEntries(logFiles, truncation.sessionId)
                     - TotalEntries(logFiles', truncation.sessionId)]_vars

(***************************************************************************)
(* C37.  handleSessionDelete(id) takes the session out of the project that *)
(* holds it and lowers the total of that project by one, removes the       *)
(* stored placeholder record of id and no other, clears the selection      *)
(* exactly when the session was the selected one, and leaves the sessions  *)
(* and the total of every other project as they were.                      *)
(***************************************************************************)
SessionDeleted(i, j) ==
  LET sessionId == projects[i].sessions[j].id
      Kept(x) == x.id # sessionId
  IN  /\ projects'[i].sessions = Filter(projects[i].sessions, Kept)
      /\ projects'[i].total = projects[i].total - 1
      /\ placeholderSessions' = Filter(placeholderSessions, Kept)
      /\ selectedSession' = IF IdOf(selectedSession) = sessionId THEN <<>>
                            ELSE selectedSession
      /\ \A k \in DOMAIN projects \ {i} :
           /\ projects'[k].sessions = projects[k].sessions
           /\ projects'[k].total = projects[k].total

C37_SessionDeleteFrame ==
  [][\A i \in DOMAIN projects : \A j \in DOMAIN projects[i].sessions :
       handleSessionDelete(i, j) => SessionDeleted(i, j)]_vars

(***************************************************************************)
(* C38.  When the client asks to abort under an identity that no running   *)
(* subprocess is tracked under, so that the server answers                 *)
(* 'session-aborted' with success = false, and an invocation is still      *)
(* running, the client stays in the loading state and the identity of the  *)
(* conversation stays in the Protection Set.                               *)
(***************************************************************************)
\* the key of the process table entry of a running invocation, if a session id
ProcessKey(inv) == inv.capturedSessionId

TrackedUnder(sessionId) ==
  \E k \in DOMAIN invocations :
    invocations[k].running /\ ProcessKey(invocations[k]) = sessionId

AbortFails ==
  /\ handleAbortSession
  /\ ~TrackedUnder(getActiveSessionId)
  /\ \E k \in DOMAIN invocations : invocations[k].running

C38_FailedAbortKeepsLoading ==
  [][AbortFails =>
       /\ isLoading' = isLoading
       /\ (ProtectionKey(NoId) \in activeSessions
            => ProtectionKey(NoId) \in activeSessions')]_vars

(***************************************************************************)
(* C39.  The 'session-created' message of an invocation is sent, and       *)
(* handled by the client, while the subprocess of the invocation is still  *)
(* running, that is before its 'claude-complete'; and the identity the     *)
(* invocation was given is not added to the Protection Set after the       *)
(* 'claude-complete' of the invocation.                                    *)
(***************************************************************************)
Completed(k) == ~invocations[k].running

AddedToProtectionSet(id) == id \in activeSessions' \ activeSessions

C39_IdentityBeforeComplete ==
  [][\A k \in DOMAIN invocations :
       /\ SessionCreatedStep(k) => ~Completed(k)
       /\ AddedToProtectionSet(invocations[k].realId) => ~Completed(k)]_vars

(***************************************************************************)
(* C40.  Also when invocations for the same session identity overlap, a    *)
(* running subprocess keeps its process-table entry until its own          *)
(* terminal event: the close of one invocation removes no entry of         *)
(* another running one, and after an abort for an identity every           *)
(* subprocess of that identity that still runs unsignalled has an entry.   *)
(***************************************************************************)
Abortable(k) == KeysOf(k) # {}

CloseKeepsOthers(k) ==
  \A j \in DOMAIN claudeProcesses \ {k} :
    (BeforeTerminalEvent(claudeProcesses[j]) /\ Abortable(j)) => Abortable(j)'

AbortLeavesNoneUntracked(sessionId) ==
  \A j \in DOMAIN claudeProcesses :
    (BeforeTerminalEvent(claudeProcesses'[j])
       /\ finalSessionId(claudeProcesses[j]) = sessionId) => Abortable(j)'

C40_OverlappingInvocationsAbortable ==
  [][/\ \A k \in DOMAIN claudeProcesses : \A code \in {0, 1} :
          OnClose(k, code) => CloseKeepsOthers(k)
     /\ \A sessionId \in AbortIds :
          OnAbortSession(sessionId) => AbortLeavesNoneUntracked(sessionId)]_vars
====
